---- MODULE Spec2Model ----
(***************************************************************************)
(* Storage pool / volume driver of libvirt (src/storage/storage_driver.c). *)
(*                                                                         *)
(* State: the driver's pool list, the driver lock, one lock per pool       *)
(* object, the state/config/autostart directories, and for every calling   *)
(* thread the handler it is in and where it is inside that handler.        *)
(* A handler is a few steps: it takes the driver lock and looks its pool   *)
(* up, it gets the pool object's lock (it may have to wait for it, holding *)
(* the driver lock), it runs up to its blocking backend call, and it       *)
(* returns.  A volume build has a further window in which the pool lock    *)
(* is released.                                                            *)
(***************************************************************************)
EXTENDS Integers, Sequences, FiniteSets, TLC

VARIABLES
    pools,          \* driver->pools.objs : sequence of pool objects
    driverLock,     \* holder of driver->lock
    poolLock,       \* pool name -> holder of that pool object's lock
    stateFiles,     \* names with a file <stateDir>/<name>.xml
    configFiles,    \* names with a file <configDir>/<name>.xml
    autostartLinks, \* names with a symlink <autostartDir>/<name>.xml
    th,             \* thread -> [pc, req] : the handler a thread is in
    boot,           \* the daemon's start-up: [phase, i]
    streams,        \* pool names of upload streams still open (close callback armed)
    ret             \* what the last handler to return returned, and the events it queued

vars == <<pools, driverLock, poolLock, stateFiles, configFiles, autostartLinks,
          th, boot, streams, ret>>

----------------------------------------------------------------------------
\* Bounds of the model

\* largest volume capacity a caller asks for
MaxCap == 1
\* free space a pool scan reports
PoolAvail == 2
\* the unsigned counters wrap at 2^CounterBits (64 in the program)
CounterBits == 2

Threads == {"t1", "t2"}
Daemon == "daemon"
NoThread == "none"
PoolNames == {"p1", "p2"}
VolNames == {"v1", "v2"}

RECURSIVE Pow2(_)
Pow2(n) == IF n = 0 THEN 1 ELSE 2 * Pow2(n - 1)
Wrap == Pow2(CounterBits)
\* unsigned long long arithmetic
UAdd(a, b) == (a + b) % Wrap
USub(a, b) == (a - b + Wrap) % Wrap

----------------------------------------------------------------------------
\* Pool definitions callers and the directories can hold

NoDef == [name |-> "-", uuid |-> "-", type |-> "-", source |-> "-"]
PoolDefs ==
    { [name |-> "p1", uuid |-> "u1", type |-> "dir",   source |-> "s1"],
      [name |-> "p1", uuid |-> "u1", type |-> "dir",   source |-> "s2"],
      [name |-> "p2", uuid |-> "u2", type |-> "disk",  source |-> "s2"],
      [name |-> "p2", uuid |-> "u2", type |-> "mpath", source |-> "s3"] }
\* virStoragePoolPtr handles: name + uuid
Handles == { [name |-> d.name, uuid |-> d.uuid] : d \in PoolDefs }

\* The capability table virStorageBackendForType returns.  refreshPool is
\* called without a presence check by every caller, so every type has it.
AllCaps == {"checkPool", "buildPool", "startPool", "stopPool", "deletePool",
            "createVol", "buildVol", "buildVolFrom", "deleteVol", "refreshVol",
            "resizeVol", "wipeVol", "uploadVol", "downloadVol"}
virStorageBackendForType(type) ==
    CASE type = "dir"   -> AllCaps
      [] type = "disk"  -> {"buildPool", "startPool", "stopPool", "deletePool",
                            "createVol", "resizeVol", "deleteVol",
                            "uploadVol", "downloadVol", "wipeVol"}
      [] type = "mpath" -> {"checkPool"}
      [] OTHER          -> {}
Has(def, cap) == cap \in virStorageBackendForType(def.type)

----------------------------------------------------------------------------
\* Pool objects and the pool list (virstorageobj)

NoVol == [capacity |-> 0, allocation |-> 0, building |-> FALSE, in_use |-> 0]
EmptyVols == [v \in {} |-> NoVol]

NewPoolObj(def) ==
    [def |-> def, newDef |-> NoDef, configFile |-> FALSE, autostart |-> FALSE,
     active |-> FALSE, asyncjobs |-> 0, allocation |-> 0, available |-> PoolAvail,
     vols |-> EmptyVols]

Names(ps) == { ps[i].def.name : i \in DOMAIN ps }
Idx(ps, n) == CHOOSE i \in DOMAIN ps : ps[i].def.name = n
Obj(ps, n) == ps[Idx(ps, n)]
SetObj(ps, n, o) == [i \in DOMAIN ps |-> IF ps[i].def.name = n THEN o ELSE ps[i]]

\* returns the name of the pool found, or "-"
virStoragePoolObjFindByUUID(ps, uuid) ==
    IF \E i \in DOMAIN ps : ps[i].def.uuid = uuid
    THEN ps[CHOOSE i \in DOMAIN ps : ps[i].def.uuid = uuid].def.name
    ELSE "-"
virStoragePoolObjFindByName(ps, name) ==
    IF name \in Names(ps) THEN name ELSE "-"

virStoragePoolObjRemove(ps, n) == SelectSeq(ps, LAMBDA o : o.def.name # n)

\* same name and uuid: an update of that pool (refused for an active pool when
\* check_active); same name or same uuid alone: a duplicate
virStoragePoolObjIsDuplicate(ps, def, check_active) ==
    IF \E i \in DOMAIN ps : ps[i].def.name = def.name
    THEN LET o == Obj(ps, def.name) IN
         IF o.def.uuid # def.uuid THEN "duplicate"
         ELSE IF check_active /\ o.active THEN "already active"
         ELSE "OK"
    ELSE IF \E i \in DOMAIN ps : ps[i].def.uuid = def.uuid THEN "duplicate"
    ELSE "OK"

virStoragePoolObjSourceFindDuplicate(ps, def) ==
    IF \E i \in DOMAIN ps : /\ ps[i].def.name # def.name
                            /\ ps[i].def.source = def.source
    THEN "duplicate source" ELSE "OK"

\* an active pool keeps its definition and gets a pending one
virStoragePoolObjAssignDef(ps, def) ==
    IF def.name \in Names(ps)
    THEN LET o == Obj(ps, def.name) IN
         SetObj(ps, def.name,
                IF o.active THEN [o EXCEPT !.newDef = def]
                            ELSE [o EXCEPT !.def = def])
    ELSE Append(ps, NewPoolObj(def))

virStoragePoolObjDefUseNewDef(o) == [o EXCEPT !.def = o.newDef, !.newDef = NoDef]
virStoragePoolObjClearVols(o) == [o EXCEPT !.vols = EmptyVols]
virStoragePoolObjAddVol(o, v, vd) ==
    [o EXCEPT !.vols = [n \in DOMAIN o.vols \cup {v} |->
                            IF n = v THEN vd ELSE o.vols[n]]]
virStoragePoolObjRemoveVol(o, v) ==
    [o EXCEPT !.vols = [n \in DOMAIN o.vols \ {v} |-> o.vols[n]]]

\* What a pool scan can find on the storage: nothing, or one volume.
Scans == { EmptyVols,
           [v \in {"v1"} |-> [capacity |-> 1, allocation |-> 1,
                              building |-> FALSE, in_use |-> 0]] }
RECURSIVE SumAlloc(_, _)
SumAlloc(vs, S) ==
    IF S = {} THEN 0
    ELSE LET v == CHOOSE x \in S : TRUE IN vs[v].allocation + SumAlloc(vs, S \ {v})
\* backend->refreshPool, successful: the volumes found and the space they take
refreshPool(o, scan) ==
    [o EXCEPT !.vols = scan,
              !.allocation = SumAlloc(scan, DOMAIN scan),
              !.available = PoolAvail - SumAlloc(scan, DOMAIN scan)]

----------------------------------------------------------------------------
\* Requests, results and the frame every handler works on

NoHandle == [name |-> "-", uuid |-> "-"]
NoReq == [op |-> "-", h |-> NoHandle, def |-> NoDef, vol |-> "-",
          spool |-> "-", svol |-> "-", cap |-> 0, flags |-> {}]
Idle == [pc |-> "idle", req |-> NoReq, need |-> <<>>]

\* The outcome of the backend and file-system calls a handler makes:
\*   pre     buildPool / createVol / checkPool reports active
\*   main    startPool / stopPool / deletePool / deleteVol / buildVol /
\*           buildVolFrom / resizeVol / wipeVol / uploadVol / downloadVol
\*   io      virStoragePoolSaveState / SaveDef / DeleteDef / symlink / unlink
\*   refresh refreshPool / refreshVol / virStorageBackendRefreshVolTargetUpdate
\*   scan    what a successful refreshPool finds
\*   alloc   the allocation a successful refreshVol reads back
Good == [pre |-> TRUE, main |-> TRUE, io |-> TRUE, refresh |-> TRUE,
         scan |-> EmptyVols, alloc |-> 0]
\* A handler stops at the first call that fails, so an outcome has one
\* failing call; a volume handler then tries a deleteVol, which may fail too
\* (io with main or refresh).
PoolOutcomes ==
    { [Good EXCEPT !.scan = s] : s \in Scans }
    \cup { [Good EXCEPT !.pre = FALSE], [Good EXCEPT !.main = FALSE],
           [Good EXCEPT !.io = FALSE], [Good EXCEPT !.refresh = FALSE] }
VolOutcomes ==
    { [Good EXCEPT !.alloc = n] : n \in 0..MaxCap }
    \cup { [Good EXCEPT !.pre = FALSE], [Good EXCEPT !.io = FALSE] }
    \cup { [Good EXCEPT !.main = FALSE, !.io = c] : c \in BOOLEAN }
    \cup { [Good EXCEPT !.refresh = FALSE, !.io = c] : c \in BOOLEAN }

\* error messages of the handlers, and the virErrorNumber each is reported with
ErrCode(msg) ==
    CASE msg = "OK" -> "VIR_ERR_OK"
      [] msg \in {"no storage pool"} -> "VIR_ERR_NO_STORAGE_POOL"
      [] msg \in {"no storage vol"} -> "VIR_ERR_NO_STORAGE_VOL"
      [] msg \in {"pool is not active", "pool is already active",
                  "pool is still active", "volume is still in use",
                  "volume is still being allocated"} -> "VIR_ERR_OPERATION_INVALID"
      [] msg \in {"pool has asynchronous jobs running", "pool has no config file",
                  "volume name already in use"} -> "VIR_ERR_INTERNAL_ERROR"
      [] msg \in {"not supported", "volume capacity required"} -> "VIR_ERR_NO_SUPPORT"
      [] msg \in {"volume exists"} -> "VIR_ERR_STORAGE_VOL_EXIST"
      [] msg \in {"invalid argument"} -> "VIR_ERR_INVALID_ARG"
      [] msg \in {"not enough space"} -> "VIR_ERR_OPERATION_FAILED"
      [] msg \in {"duplicate", "duplicate source"} -> "VIR_ERR_OPERATION_FAILED"
      [] msg \in {"system error"} -> "VIR_ERR_SYSTEM_ERROR"
      [] OTHER -> "backend error"

Event(kind, name) == [kind |-> kind, name |-> name]

\* the state a handler starts from, as the record its body transforms
Cur == [pools |-> pools, sf |-> stateFiles, cf |-> configFiles, al |-> autostartLinks,
        st |-> streams, msg |-> "OK", ev |-> <<>>]
Fail(msg) == [Cur EXCEPT !.msg = msg]

virStoragePoolObjFromStoragePool(h) == virStoragePoolObjFindByUUID(pools, h.uuid)

\* Faulty variants of virStoragePoolUpdateInactive, for testing what the
\* properties below rest on: one keeps a transient pool in the list, one
\* leaves the pending definition pending.
UpdateInactiveKeepsTransient(ps, n) ==
    LET o == Obj(ps, n) IN
    IF o.configFile /\ o.newDef # NoDef THEN SetObj(ps, n, virStoragePoolObjDefUseNewDef(o))
    ELSE ps
UpdateInactiveKeepsPending(ps, n) ==
    IF ~Obj(ps, n).configFile THEN virStoragePoolObjRemove(ps, n) ELSE ps

\* virStoragePoolUpdateInactive on the pool named n of list ps
virStoragePoolUpdateInactive(ps, n) ==
    LET o == Obj(ps, n) IN
    IF ~o.configFile THEN virStoragePoolObjRemove(ps, n)
    ELSE IF o.newDef # NoDef THEN SetObj(ps, n, virStoragePoolObjDefUseNewDef(o))
    ELSE ps

----------------------------------------------------------------------------
\* Pool handlers: what each does once it holds its locks

storagePoolCreateXMLBody(req, o) ==
    LET def == req.def
        n == def.name
        dup == virStoragePoolObjIsDuplicate(pools, def, TRUE)
        sdup == virStoragePoolObjSourceFindDuplicate(pools, def)
        ps1 == virStoragePoolObjAssignDef(pools, def)
        removed == [Cur EXCEPT !.pools = virStoragePoolObjRemove(ps1, n),
                               !.msg = "backend failed"]
    IN  IF dup # "OK" THEN Fail(dup)
        ELSE IF sdup # "OK" THEN Fail(sdup)
        ELSE IF Has(def, "buildPool") /\ "build" \in req.flags /\ ~o.pre THEN removed
        ELSE IF Has(def, "startPool") /\ ~o.main THEN removed
        ELSE IF ~o.io \/ ~o.refresh
             THEN [removed EXCEPT !.sf = stateFiles \ {n}]
        ELSE [Cur EXCEPT
                !.pools = SetObj(ps1, n, [refreshPool(Obj(ps1, n), o.scan)
                                            EXCEPT !.active = TRUE]),
                !.sf = stateFiles \cup {n},
                !.ev = <<Event("started", n)>>]

\* a faulty storagePoolDefineXMLBody: the pool it defines is started too
DefineXMLStartsPool(req, o) ==
    LET def == req.def
        n == def.name
        dup == virStoragePoolObjIsDuplicate(pools, def, FALSE)
        sdup == virStoragePoolObjSourceFindDuplicate(pools, def)
        ps1 == virStoragePoolObjAssignDef(pools, def)
    IN  IF dup # "OK" THEN Fail(dup)
        ELSE IF sdup # "OK" THEN Fail(sdup)
        ELSE IF ~o.io
             THEN [Cur EXCEPT !.pools = virStoragePoolObjRemove(ps1, n),
                              !.msg = "system error"]
        ELSE [Cur EXCEPT
                !.pools = SetObj(ps1, n, [Obj(ps1, n) EXCEPT !.configFile = TRUE,
                                                             !.active = TRUE]),
                !.cf = configFiles \cup {n},
                !.sf = stateFiles \cup {n},
                !.ev = <<Event("defined", n)>>]

storagePoolDefineXMLBody(req, o) ==
    LET def == req.def
        n == def.name
        dup == virStoragePoolObjIsDuplicate(pools, def, FALSE)
        sdup == virStoragePoolObjSourceFindDuplicate(pools, def)
        ps1 == virStoragePoolObjAssignDef(pools, def)
    IN  IF dup # "OK" THEN Fail(dup)
        ELSE IF sdup # "OK" THEN Fail(sdup)
        ELSE IF ~o.io
             THEN [Cur EXCEPT !.pools = virStoragePoolObjRemove(ps1, n),
                              !.msg = "system error"]
        ELSE [Cur EXCEPT
                !.pools = SetObj(ps1, n, [Obj(ps1, n) EXCEPT !.configFile = TRUE]),
                !.cf = configFiles \cup {n},
                !.ev = <<Event("defined", n)>>]

\* a faulty storagePoolUndefineBody: the files go, the pool object stays
UndefineKeepsObject(req, o) ==
    LET n == virStoragePoolObjFromStoragePool(req.h) IN
    IF n = "-" THEN Fail("no storage pool")
    ELSE IF Obj(pools, n).active THEN Fail("pool is still active")
    ELSE IF Obj(pools, n).asyncjobs > 0 THEN Fail("pool has asynchronous jobs running")
    ELSE IF ~o.io THEN Fail("system error")
    ELSE [Cur EXCEPT !.cf = configFiles \ {n},
                     !.al = IF o.main THEN autostartLinks \ {n} ELSE autostartLinks,
                     !.ev = <<Event("undefined", n)>>]

storagePoolUndefineBody(req, o) ==
    LET n == virStoragePoolObjFromStoragePool(req.h) IN
    IF n = "-" THEN Fail("no storage pool")
    ELSE IF Obj(pools, n).active THEN Fail("pool is still active")
    ELSE IF Obj(pools, n).asyncjobs > 0 THEN Fail("pool has asynchronous jobs running")
    ELSE IF ~o.io THEN Fail("system error")
    ELSE [Cur EXCEPT !.pools = virStoragePoolObjRemove(pools, n),
                     !.cf = configFiles \ {n},
                     !.al = IF o.main THEN autostartLinks \ {n} ELSE autostartLinks,
                     !.ev = <<Event("undefined", n)>>]

\* storagePoolLookupByUUID and storagePoolLookupByName
storagePoolLookupByUUIDBody(req, o) ==
    IF virStoragePoolObjFindByUUID(pools, req.h.uuid) = "-"
    THEN Fail("no storage pool") ELSE Cur
storagePoolLookupByNameBody(req, o) ==
    IF virStoragePoolObjFindByName(pools, req.h.name) = "-"
    THEN Fail("no storage pool") ELSE Cur

storagePoolCreateCheck(req) ==
    LET n == virStoragePoolObjFromStoragePool(req.h) IN
    IF n = "-" THEN "no storage pool"
    ELSE IF Obj(pools, n).active THEN "pool is already active"
    ELSE "OK"
storagePoolCreateBody(req, o) ==
    LET n == virStoragePoolObjFromStoragePool(req.h)
        obj == Obj(pools, n)
        cleared == SetObj(pools, n, virStoragePoolObjClearVols(obj))
    IN  IF storagePoolCreateCheck(req) # "OK" THEN Fail(storagePoolCreateCheck(req))
        ELSE IF Has(obj.def, "buildPool") /\ "build" \in req.flags /\ ~o.pre
             THEN Fail("backend failed")
        ELSE IF Has(obj.def, "startPool") /\ ~o.main THEN Fail("backend failed")
        ELSE IF ~o.io \/ ~o.refresh
             THEN [Cur EXCEPT !.pools = cleared, !.sf = stateFiles \ {n},
                              !.msg = "backend failed"]
        ELSE [Cur EXCEPT
                !.pools = SetObj(pools, n, [refreshPool(obj, o.scan) EXCEPT !.active = TRUE]),
                !.sf = stateFiles \cup {n},
                !.ev = <<Event("started", n)>>]

storagePoolBuildCheck(req) ==
    LET n == virStoragePoolObjFromStoragePool(req.h) IN
    IF n = "-" THEN "no storage pool"
    ELSE IF Obj(pools, n).active THEN "pool is already active"
    ELSE "OK"
storagePoolBuildBody(req, o) ==
    LET n == virStoragePoolObjFromStoragePool(req.h) IN
    IF storagePoolBuildCheck(req) # "OK" THEN Fail(storagePoolBuildCheck(req))
    ELSE IF Has(Obj(pools, n).def, "buildPool") /\ ~o.pre THEN Fail("backend failed")
    ELSE [Cur EXCEPT !.ev = <<Event("created", n)>>]

\* a faulty storagePoolDestroyCheck: the running jobs are not looked at
DestroyCheckIgnoresJobs(req) ==
    LET n == virStoragePoolObjFromStoragePool(req.h) IN
    IF n = "-" THEN "no storage pool"
    ELSE IF ~Obj(pools, n).active THEN "pool is not active"
    ELSE "OK"
storagePoolDestroyCheck(req) ==
    LET n == virStoragePoolObjFromStoragePool(req.h) IN
    IF n = "-" THEN "no storage pool"
    ELSE IF ~Obj(pools, n).active THEN "pool is not active"
    ELSE IF Obj(pools, n).asyncjobs > 0 THEN "pool has asynchronous jobs running"
    ELSE "OK"
\* a faulty storagePoolDestroyBody: 'stopped' is queued before stopPool is tried
DestroyQueuesEarly(req, o) ==
    LET n == virStoragePoolObjFromStoragePool(req.h)
        obj == Obj(pools, n)
        stopped == SetObj(pools, n, [virStoragePoolObjClearVols(obj) EXCEPT !.active = FALSE])
    IN  IF storagePoolDestroyCheck(req) # "OK" THEN Fail(storagePoolDestroyCheck(req))
        ELSE IF Has(obj.def, "stopPool") /\ ~o.main
             THEN [Cur EXCEPT !.sf = stateFiles \ {n}, !.msg = "backend failed",
                              !.ev = <<Event("stopped", n)>>]
        ELSE [Cur EXCEPT !.pools = virStoragePoolUpdateInactive(stopped, n),
                         !.sf = stateFiles \ {n},
                         !.ev = <<Event("stopped", n)>>]
storagePoolDestroyBody(req, o) ==
    LET n == virStoragePoolObjFromStoragePool(req.h)
        obj == Obj(pools, n)
        stopped == SetObj(pools, n, [virStoragePoolObjClearVols(obj) EXCEPT !.active = FALSE])
    IN  IF storagePoolDestroyCheck(req) # "OK" THEN Fail(storagePoolDestroyCheck(req))
        ELSE IF Has(obj.def, "stopPool") /\ ~o.main
             THEN [Cur EXCEPT !.sf = stateFiles \ {n}, !.msg = "backend failed"]
        ELSE [Cur EXCEPT !.pools = virStoragePoolUpdateInactive(stopped, n),
                         !.sf = stateFiles \ {n},
                         !.ev = <<Event("stopped", n)>>]

storagePoolDeleteCheck(req) ==
    LET n == virStoragePoolObjFromStoragePool(req.h) IN
    IF n = "-" THEN "no storage pool"
    ELSE IF Obj(pools, n).active THEN "pool is still active"
    ELSE IF Obj(pools, n).asyncjobs > 0 THEN "pool has asynchronous jobs running"
    ELSE "OK"
storagePoolDeleteBody(req, o) ==
    LET n == virStoragePoolObjFromStoragePool(req.h) IN
    IF storagePoolDeleteCheck(req) # "OK" THEN Fail(storagePoolDeleteCheck(req))
    ELSE IF ~Has(Obj(pools, n).def, "deletePool")
         THEN [Cur EXCEPT !.sf = stateFiles \ {n}, !.msg = "not supported"]
    ELSE IF ~o.main
         THEN [Cur EXCEPT !.sf = stateFiles \ {n}, !.msg = "backend failed"]
    ELSE [Cur EXCEPT !.sf = stateFiles \ {n}, !.ev = <<Event("deleted", n)>>]

storagePoolRefreshCheck(req) ==
    LET n == virStoragePoolObjFromStoragePool(req.h) IN
    IF n = "-" THEN "no storage pool"
    ELSE IF ~Obj(pools, n).active THEN "pool is not active"
    ELSE IF Obj(pools, n).asyncjobs > 0 THEN "pool has asynchronous jobs running"
    ELSE "OK"
\* a faulty storagePoolRefreshBody: a failed rescan leaves the pool active
RefreshFailureKeepsActive(req, o) ==
    LET n == virStoragePoolObjFromStoragePool(req.h)
        obj == Obj(pools, n)
    IN  IF storagePoolRefreshCheck(req) # "OK" THEN Fail(storagePoolRefreshCheck(req))
        ELSE IF ~o.refresh
             THEN [Cur EXCEPT !.pools = SetObj(pools, n, virStoragePoolObjClearVols(obj)),
                              !.ev = <<Event("stopped", n)>>,
                              !.msg = "backend failed"]
        ELSE [Cur EXCEPT !.pools = SetObj(pools, n, refreshPool(obj, o.scan)),
                         !.ev = <<Event("refreshed", n)>>]
storagePoolRefreshBody(req, o) ==
    LET n == virStoragePoolObjFromStoragePool(req.h)
        obj == Obj(pools, n)
        stopped == SetObj(pools, n, [virStoragePoolObjClearVols(obj) EXCEPT !.active = FALSE])
    IN  IF storagePoolRefreshCheck(req) # "OK" THEN Fail(storagePoolRefreshCheck(req))
        ELSE IF ~o.refresh
             THEN [Cur EXCEPT !.pools = virStoragePoolUpdateInactive(stopped, n),
                              !.ev = <<Event("stopped", n)>>,
                              !.msg = "backend failed"]
        ELSE [Cur EXCEPT !.pools = SetObj(pools, n, refreshPool(obj, o.scan)),
                         !.ev = <<Event("refreshed", n)>>]

storagePoolGetInfoBody(req, o) ==
    IF virStoragePoolObjFromStoragePool(req.h) = "-" THEN Fail("no storage pool") ELSE Cur

\* storagePoolIsActive: the lookup, then the flag is read
storagePoolIsActiveBody(req, o) ==
    IF virStoragePoolObjFromStoragePool(req.h) = "-" THEN Fail("no storage pool") ELSE Cur

\* lines 1329-1354, with o.io the outcome of virFileMakePath / symlink /
\* unlink: symlink fails on a link that is there already (EEXIST), and an
\* unlink of a link that is not there (ENOENT) is let pass
storagePoolSetAutostartBody(req, o) ==
    LET n == virStoragePoolObjFromStoragePool(req.h)
        new == "autostart" \in req.flags
    IN  IF n = "-" THEN Fail("no storage pool")
        ELSE IF ~Obj(pools, n).configFile THEN Fail("pool has no config file")
        ELSE IF Obj(pools, n).autostart = new THEN Cur
        ELSE IF new /\ (~o.io \/ n \in autostartLinks) THEN Fail("system error")
        ELSE IF ~new /\ ~o.io /\ n \in autostartLinks THEN Fail("system error")
        ELSE [Cur EXCEPT !.pools = SetObj(pools, n, [Obj(pools, n) EXCEPT !.autostart = new]),
                         !.al = IF new THEN autostartLinks \cup {n}
                                       ELSE autostartLinks \ {n}]

\* a faulty virStorageVolPoolRefreshThreadBody: the running jobs are not looked at
RefreshThreadIgnoresJobs(req, o) ==
    LET n == virStoragePoolObjFindByName(pools, req.h.name)
        obj == Obj(pools, n)
    IN  IF n = "-" THEN Cur
        ELSE [Cur EXCEPT
                !.pools = SetObj(pools, n, IF o.refresh THEN refreshPool(obj, o.scan)
                                           ELSE virStoragePoolObjClearVols(obj)),
                !.ev = <<Event("refreshed", n)>>]

\* virStorageVolPoolRefreshThread, the thread an upload stream's close starts
virStorageVolPoolRefreshThreadBody(req, o) ==
    LET n == virStoragePoolObjFindByName(pools, req.h.name)
        obj == Obj(pools, n)
    IN  IF n = "-" THEN Cur
        ELSE IF obj.asyncjobs > 0 THEN Cur
        ELSE [Cur EXCEPT
                !.pools = SetObj(pools, n, IF o.refresh THEN refreshPool(obj, o.scan)
                                           ELSE virStoragePoolObjClearVols(obj)),
                !.ev = <<Event("refreshed", n)>>]

----------------------------------------------------------------------------
\* Volume handlers

Min(a, b) == IF a < b THEN a ELSE b
Max(a, b) == IF a < b THEN b ELSE a
SetVol(ps, n, v, vd) ==
    SetObj(ps, n, [Obj(ps, n) EXCEPT !.vols = [x \in DOMAIN @ |-> IF x = v THEN vd ELSE @[x]]])
SelfReporting(def) == def.type = "disk"

\* virStorageVolDefFromVol: pool by name, active, volume by name
virStorageVolDefFromVol(req) ==
    LET n == virStoragePoolObjFindByName(pools, req.h.name) IN
    IF n = "-" THEN "no storage pool"
    ELSE IF ~Obj(pools, n).active THEN "pool is not active"
    ELSE IF req.vol \notin DOMAIN Obj(pools, n).vols THEN "no storage vol"
    ELSE "OK"

\* storageVolDeleteInternal on volume v of pool n in list ps; ok is deleteVol's outcome
storageVolDeleteInternal(ps, n, v, ok, updateMeta) ==
    LET obj == Obj(ps, n)
        vd == obj.vols[v]
        meta == IF updateMeta /\ ~SelfReporting(obj.def)
                THEN [obj EXCEPT !.allocation = USub(@, vd.allocation),
                                 !.available = UAdd(@, vd.allocation)]
                ELSE obj
    IN  IF ~Has(obj.def, "deleteVol") THEN [msg |-> "not supported", pools |-> ps]
        ELSE IF ~ok THEN [msg |-> "backend failed", pools |-> ps]
        ELSE [msg |-> "OK", pools |-> SetObj(ps, n, virStoragePoolObjRemoveVol(meta, v))]

storageVolDeleteCheck(req) ==
    LET n == req.h.name IN
    IF virStorageVolDefFromVol(req) # "OK" THEN virStorageVolDefFromVol(req)
    ELSE IF Obj(pools, n).vols[req.vol].in_use > 0 THEN "volume is still in use"
    ELSE IF Obj(pools, n).vols[req.vol].building THEN "volume is still being allocated"
    ELSE "OK"
storageVolDeleteBody(req, o) ==
    LET d == storageVolDeleteInternal(pools, req.h.name, req.vol, o.main, TRUE) IN
    IF storageVolDeleteCheck(req) # "OK" THEN Fail(storageVolDeleteCheck(req))
    ELSE [Cur EXCEPT !.pools = d.pools, !.msg = d.msg]

\* a faulty storageVolDownloadCheck: a volume under construction is served
DownloadCheckIgnoresBuilding(req) ==
    IF virStorageVolDefFromVol(req) # "OK" THEN virStorageVolDefFromVol(req)
    ELSE IF ~Has(Obj(pools, req.h.name).def, "downloadVol") THEN "not supported"
    ELSE "OK"
storageVolDownloadCheck(req) ==
    LET n == req.h.name IN
    IF virStorageVolDefFromVol(req) # "OK" THEN virStorageVolDefFromVol(req)
    ELSE IF Obj(pools, n).vols[req.vol].building THEN "volume is still being allocated"
    ELSE IF ~Has(Obj(pools, n).def, "downloadVol") THEN "not supported"
    ELSE "OK"
storageVolDownloadBody(req, o) ==
    IF storageVolDownloadCheck(req) # "OK" THEN Fail(storageVolDownloadCheck(req))
    ELSE IF ~o.main THEN Fail("backend failed")
    ELSE Cur

\* a faulty storageVolUploadCheck: a volume in use is written to
UploadCheckIgnoresInUse(req) ==
    LET n == req.h.name IN
    IF virStorageVolDefFromVol(req) # "OK" THEN virStorageVolDefFromVol(req)
    ELSE IF Obj(pools, n).vols[req.vol].building THEN "volume is still being allocated"
    ELSE IF ~Has(Obj(pools, n).def, "uploadVol") THEN "not supported"
    ELSE "OK"
storageVolUploadCheck(req) ==
    LET n == req.h.name IN
    IF virStorageVolDefFromVol(req) # "OK" THEN virStorageVolDefFromVol(req)
    ELSE IF Obj(pools, n).vols[req.vol].in_use > 0 THEN "volume is still in use"
    ELSE IF Obj(pools, n).vols[req.vol].building THEN "volume is still being allocated"
    ELSE IF ~Has(Obj(pools, n).def, "uploadVol") THEN "not supported"
    ELSE "OK"
storageVolUploadBody(req, o) ==
    IF storageVolUploadCheck(req) # "OK" THEN Fail(storageVolUploadCheck(req))
    ELSE IF ~o.main THEN Fail("backend failed")
    ELSE [Cur EXCEPT !.st = streams \cup {req.h.name}]

\* a faulty ResizeTarget: the delta to shrink by is not capped at the capacity
ResizeTargetUnderflows(vd, capacity, flags) ==
    IF "delta" \in flags
    THEN IF "shrink" \in flags THEN USub(vd.capacity, capacity)
                               ELSE UAdd(vd.capacity, capacity)
    ELSE capacity
\* the capacity storageVolResize computes from its argument and flags
ResizeTarget(vd, capacity, flags) ==
    IF "delta" \in flags
    THEN IF "shrink" \in flags THEN vd.capacity - Min(capacity, vd.capacity)
                               ELSE UAdd(vd.capacity, capacity)
    ELSE capacity
\* a faulty storageVolResizeCheck: the shrink flag is not asked for
ResizeCheckAllowsShrink(req) ==
    LET n == req.h.name
        obj == Obj(pools, n)
        vd == obj.vols[req.vol]
        abs == ResizeTarget(vd, req.cap, req.flags)
        delta == IF "allocate" \in req.flags THEN USub(abs, vd.allocation) ELSE 0
    IN  IF virStorageVolDefFromVol(req) # "OK" THEN virStorageVolDefFromVol(req)
        ELSE IF vd.in_use > 0 THEN "volume is still in use"
        ELSE IF vd.building THEN "volume is still being allocated"
        ELSE IF abs < vd.allocation THEN "invalid argument"
        ELSE IF delta > obj.available THEN "not enough space"
        ELSE IF ~Has(obj.def, "resizeVol") THEN "not supported"
        ELSE "OK"
storageVolResizeCheck(req) ==
    LET n == req.h.name
        obj == Obj(pools, n)
        vd == obj.vols[req.vol]
        abs == ResizeTarget(vd, req.cap, req.flags)
        delta == IF "allocate" \in req.flags THEN USub(abs, vd.allocation) ELSE 0
    IN  IF virStorageVolDefFromVol(req) # "OK" THEN virStorageVolDefFromVol(req)
        ELSE IF vd.in_use > 0 THEN "volume is still in use"
        ELSE IF vd.building THEN "volume is still being allocated"
        ELSE IF abs < vd.allocation THEN "invalid argument"
        ELSE IF abs < vd.capacity /\ "shrink" \notin req.flags THEN "invalid argument"
        ELSE IF delta > obj.available THEN "not enough space"
        ELSE IF ~Has(obj.def, "resizeVol") THEN "not supported"
        ELSE "OK"
\* a faulty storageVolResizeBody: the allocation follows the capacity always
ResizeBodyAlwaysAllocates(req, o) ==
    LET n == req.h.name
        obj == Obj(pools, n)
        vd == obj.vols[req.vol]
        abs == ResizeTarget(vd, req.cap, req.flags)
        alloc == SetVol(pools, n, req.vol, [vd EXCEPT !.capacity = abs, !.allocation = abs])
    IN  IF storageVolResizeCheck(req) # "OK" THEN Fail(storageVolResizeCheck(req))
        ELSE IF ~o.main THEN Fail("backend failed")
        ELSE [Cur EXCEPT !.pools = alloc]
storageVolResizeBody(req, o) ==
    LET n == req.h.name
        obj == Obj(pools, n)
        vd == obj.vols[req.vol]
        abs == ResizeTarget(vd, req.cap, req.flags)
        delta == IF "allocate" \in req.flags THEN USub(abs, vd.allocation) ELSE 0
        grown == SetVol(pools, n, req.vol, [vd EXCEPT !.capacity = abs])
        alloc == SetVol(pools, n, req.vol, [vd EXCEPT !.capacity = abs, !.allocation = abs])
    IN  IF storageVolResizeCheck(req) # "OK" THEN Fail(storageVolResizeCheck(req))
        ELSE IF ~o.main THEN Fail("backend failed")
        ELSE IF "allocate" \in req.flags
             THEN [Cur EXCEPT !.pools =
                     SetObj(alloc, n, [Obj(alloc, n) EXCEPT
                                          !.allocation = UAdd(@, delta),
                                          !.available = USub(@, delta)])]
        ELSE [Cur EXCEPT !.pools = grown]

\* req.cap is the wipe algorithm here; VIR_STORAGE_VOL_WIPE_ALG_LAST and above are refused
VIR_STORAGE_VOL_WIPE_ALG_LAST == 2
storageVolWipePatternCheck(req) ==
    LET n == req.h.name IN
    IF req.cap >= VIR_STORAGE_VOL_WIPE_ALG_LAST THEN "invalid argument"
    ELSE IF virStorageVolDefFromVol(req) # "OK" THEN virStorageVolDefFromVol(req)
    ELSE IF Obj(pools, n).vols[req.vol].in_use > 0 THEN "volume is still in use"
    ELSE IF Obj(pools, n).vols[req.vol].building THEN "volume is still being allocated"
    ELSE IF ~Has(Obj(pools, n).def, "wipeVol") THEN "not supported"
    ELSE "OK"
storageVolWipePatternBody(req, o) ==
    LET n == req.h.name
        vd == Obj(pools, n).vols[req.vol]
    IN  IF storageVolWipePatternCheck(req) # "OK" THEN Fail(storageVolWipePatternCheck(req))
        ELSE IF ~o.main THEN Fail("backend failed")
        ELSE IF ~o.refresh THEN Fail("backend failed")
        ELSE [Cur EXCEPT !.pools =
                 SetVol(pools, n, req.vol, [vd EXCEPT !.allocation = Min(o.alloc, vd.capacity)])]

storageVolGetInfoFlagsBody(req, o) ==
    LET n == req.h.name
        obj == Obj(pools, n)
        vd == obj.vols[req.vol]
    IN  IF virStorageVolDefFromVol(req) # "OK" THEN Fail(virStorageVolDefFromVol(req))
        ELSE IF ~Has(obj.def, "refreshVol") THEN Cur
        ELSE IF ~o.refresh THEN Fail("backend failed")
        ELSE [Cur EXCEPT !.pools =
                 SetVol(pools, n, req.vol, [vd EXCEPT !.allocation = Min(o.alloc, vd.capacity)])]

\* storageVolGetXMLDesc refreshes the volume as storageVolGetInfoFlags does
storageVolGetXMLDescBody(req, o) ==
    LET n == req.h.name
        obj == Obj(pools, n)
        vd == obj.vols[req.vol]
    IN  IF virStorageVolDefFromVol(req) # "OK" THEN Fail(virStorageVolDefFromVol(req))
        ELSE IF ~Has(obj.def, "refreshVol") THEN Cur
        ELSE IF ~o.refresh THEN Fail("backend failed")
        ELSE [Cur EXCEPT !.pools =
                 SetVol(pools, n, req.vol, [vd EXCEPT !.allocation = Min(o.alloc, vd.capacity)])]

----------------------------------------------------------------------------
\* Volume creation and cloning: the part before the pool lock is dropped, and
\* the part after the locks are taken again

\* a pointer the builder kept across the unlocked window no longer points at a
\* pool of the list, or at a volume of that pool
Dangling(n, v) == n \notin Names(pools) \/ v \notin DOMAIN Obj(pools, n).vols

\* lines 1910-1924 / 2110-2124: refresh the new volume, then the pool counters.
\* ps holds the new volume v in pool n; gone tells how a failure gets rid of it.
VolCreateFinish(ps, n, v, o) ==
    LET obj == Obj(ps, n)
        vd == obj.vols[v]
        del == storageVolDeleteInternal(ps, n, v, o.io, FALSE)
        read == IF Has(obj.def, "refreshVol")
                THEN [vd EXCEPT !.allocation = Min(o.alloc, vd.capacity)] ELSE vd
        counted == IF SelfReporting(obj.def) THEN obj
                   ELSE [obj EXCEPT !.allocation = UAdd(@, read.allocation),
                                    !.available = USub(@, read.allocation)]
    IN  IF Has(obj.def, "refreshVol") /\ ~o.refresh
        THEN [Cur EXCEPT !.pools = del.pools, !.msg = "backend failed"]
        ELSE [Cur EXCEPT !.pools = SetVol(SetObj(ps, n, counted), n, v, read)]

\* a faulty storageVolCreateXMLCheck: a volume without capacity is let through
CreateXMLCheckAllowsNoCapacity(req) ==
    LET n == virStoragePoolObjFromStoragePool(req.h) IN
    IF n = "-" THEN "no storage pool"
    ELSE IF ~Obj(pools, n).active THEN "pool is not active"
    ELSE IF req.vol \in DOMAIN Obj(pools, n).vols THEN "volume exists"
    ELSE IF ~Has(Obj(pools, n).def, "createVol") THEN "not supported"
    ELSE "OK"

storageVolCreateXMLCheck(req) ==
    LET n == virStoragePoolObjFromStoragePool(req.h) IN
    IF n = "-" THEN "no storage pool"
    ELSE IF ~Obj(pools, n).active THEN "pool is not active"
    ELSE IF req.cap = 0 /\ ~Has(Obj(pools, n).def, "buildVol") THEN "volume capacity required"
    ELSE IF req.vol \in DOMAIN Obj(pools, n).vols THEN "volume exists"
    ELSE IF ~Has(Obj(pools, n).def, "createVol") THEN "not supported"
    ELSE "OK"
\* the handler drops the pool lock for backend->buildVol
storageVolCreateXMLBuilds(req, o) ==
    /\ storageVolCreateXMLCheck(req) = "OK"
    /\ o.pre
    /\ Has(Obj(pools, virStoragePoolObjFromStoragePool(req.h)).def, "buildVol")
storageVolCreateXMLBody(req, o) ==
    LET n == virStoragePoolObjFromStoragePool(req.h)
        obj == Obj(pools, n)
        voldef == [capacity |-> req.cap, allocation |-> req.cap,
                   building |-> FALSE, in_use |-> 0]
        added == virStoragePoolObjAddVol(obj, req.vol, voldef)
        building == [virStoragePoolObjAddVol(obj, req.vol, [voldef EXCEPT !.building = TRUE])
                        EXCEPT !.asyncjobs = @ + 1]
    IN  IF storageVolCreateXMLCheck(req) # "OK" THEN Fail(storageVolCreateXMLCheck(req))
        ELSE IF ~o.pre THEN Fail("backend failed")
        ELSE IF Has(obj.def, "buildVol")
             THEN [Cur EXCEPT !.pools = SetObj(pools, n, building)]
        ELSE VolCreateFinish(SetObj(pools, n, added), n, req.vol, o)
\* a faulty storageVolCreateXMLPost: a failed build keeps its job counted
CreateXMLPostLeaksJob(req, o) ==
    LET n == req.h.name
        obj == Obj(pools, n)
        done == [obj EXCEPT !.vols[req.vol].building = FALSE, !.asyncjobs = @ - 1]
    IN  IF Dangling(n, req.vol) THEN Fail("dangling pointer")
        ELSE IF ~o.main
             THEN [Cur EXCEPT !.pools = SetObj(pools, n, virStoragePoolObjRemoveVol(obj, req.vol)),
                              !.msg = "backend failed"]
        ELSE VolCreateFinish(SetObj(pools, n, done), n, req.vol, o)
\* lines 1894-1924, with buildret = o.main
storageVolCreateXMLPost(req, o) ==
    LET n == req.h.name
        obj == Obj(pools, n)
        done == [obj EXCEPT !.vols[req.vol].building = FALSE, !.asyncjobs = @ - 1]
    IN  IF Dangling(n, req.vol) THEN Fail("dangling pointer")
        ELSE IF ~o.main
             THEN [Cur EXCEPT !.pools = SetObj(pools, n, virStoragePoolObjRemoveVol(done, req.vol)),
                              !.msg = "backend failed"]
        ELSE VolCreateFinish(SetObj(pools, n, done), n, req.vol, o)

\* the pool the source volume of a clone lives in: objsrc, or obj when it is the same pool
CloneCross(req) == req.h.name # req.spool
storageVolCreateXMLFromCheck(req) ==
    LET n == virStoragePoolObjFindByUUID(pools, req.h.uuid)
        s == IF CloneCross(req) THEN virStoragePoolObjFindByName(pools, req.spool) ELSE n
    IN  IF n = "-" THEN "no storage pool"
        ELSE IF s = "-" THEN "no storage pool"
        ELSE IF ~Obj(pools, n).active THEN "pool is not active"
        ELSE IF ~Obj(pools, s).active THEN "pool is not active"
        ELSE IF req.svol \notin DOMAIN Obj(pools, s).vols THEN "no storage vol"
        ELSE IF req.vol \in DOMAIN Obj(pools, n).vols THEN "volume name already in use"
        ELSE IF ~Has(Obj(pools, n).def, "buildVolFrom") THEN "not supported"
        ELSE IF Obj(pools, s).vols[req.svol].building THEN "volume is still being allocated"
        ELSE "OK"
\* o.io is the outcome of the refreshVol of the source volume (line 2053)
storageVolCreateXMLFromBuilds(req, o) ==
    /\ storageVolCreateXMLFromCheck(req) = "OK"
    /\ Has(Obj(pools, req.h.name).def, "refreshVol") => o.io
    /\ o.pre
storageVolCreateXMLFromBody(req, o) ==
    LET n == req.h.name
        s == req.spool
        src == Obj(pools, s).vols[req.svol]
        srcread == IF Has(Obj(pools, n).def, "refreshVol")
                   THEN [src EXCEPT !.allocation = Min(o.alloc, src.capacity)] ELSE src
        ps0 == SetVol(pools, s, req.svol, srcread)
        capacity == Max(req.cap, srcread.capacity)
        voldef == [capacity |-> capacity, allocation |-> capacity,
                   building |-> TRUE, in_use |-> 0]
        ps1 == SetObj(ps0, n, [virStoragePoolObjAddVol(Obj(ps0, n), req.vol, voldef)
                                   EXCEPT !.asyncjobs = @ + 1])
        ps2 == SetVol(ps1, s, req.svol, [Obj(ps1, s).vols[req.svol] EXCEPT !.in_use = @ + 1])
        ps3 == IF CloneCross(req)
               THEN SetObj(ps2, s, [Obj(ps2, s) EXCEPT !.asyncjobs = @ + 1]) ELSE ps2
    IN  IF storageVolCreateXMLFromCheck(req) # "OK" THEN Fail(storageVolCreateXMLFromCheck(req))
        ELSE IF Has(Obj(pools, n).def, "refreshVol") /\ ~o.io THEN Fail("backend failed")
        ELSE IF ~o.pre THEN [Cur EXCEPT !.pools = ps0, !.msg = "backend failed"]
        ELSE [Cur EXCEPT !.pools = ps3]
\* a faulty storageVolCreateXMLFromPost: a failed copy leaves the source volume in use
CloneFailureKeepsInUse(req, o) ==
    LET n == req.h.name
        s == req.spool
        ps1 == SetVol(pools, s, req.svol, [Obj(pools, s).vols[req.svol] EXCEPT !.in_use = @ - 1])
        ps2 == SetObj(ps1, n, [Obj(ps1, n) EXCEPT !.vols[req.vol].building = FALSE,
                                                  !.asyncjobs = @ - 1])
        ps3 == IF CloneCross(req)
               THEN SetObj(ps2, s, [Obj(ps2, s) EXCEPT !.asyncjobs = @ - 1]) ELSE ps2
        qs2 == SetObj(pools, n, [Obj(pools, n) EXCEPT !.vols[req.vol].building = FALSE,
                                                      !.asyncjobs = @ - 1])
        qs3 == IF CloneCross(req)
               THEN SetObj(qs2, s, [Obj(qs2, s) EXCEPT !.asyncjobs = @ - 1]) ELSE qs2
    IN  IF Dangling(n, req.vol) \/ Dangling(s, req.svol) THEN Fail("dangling pointer")
        ELSE IF ~o.main
             THEN [Cur EXCEPT !.pools = storageVolDeleteInternal(qs3, n, req.vol, o.io, FALSE).pools,
                              !.msg = "backend failed"]
        ELSE VolCreateFinish(ps3, n, req.vol, o)
\* lines 2094-2124, with buildret = o.main; o.io is the outcome of deleteVol
storageVolCreateXMLFromPost(req, o) ==
    LET n == req.h.name
        s == req.spool
        ps1 == SetVol(pools, s, req.svol, [Obj(pools, s).vols[req.svol] EXCEPT !.in_use = @ - 1])
        ps2 == SetObj(ps1, n, [Obj(ps1, n) EXCEPT !.vols[req.vol].building = FALSE,
                                                  !.asyncjobs = @ - 1])
        ps3 == IF CloneCross(req)
               THEN SetObj(ps2, s, [Obj(ps2, s) EXCEPT !.asyncjobs = @ - 1]) ELSE ps2
    IN  IF Dangling(n, req.vol) \/ Dangling(s, req.svol) THEN Fail("dangling pointer")
        ELSE IF ~o.main
             THEN [Cur EXCEPT !.pools = storageVolDeleteInternal(ps3, n, req.vol, o.io, FALSE).pools,
                              !.msg = "backend failed"]
        ELSE VolCreateFinish(ps3, n, req.vol, o)

----------------------------------------------------------------------------
\* Dispatch: the body of each handler, and whether it gets as far as a
\* blocking backend call

Body(req, o) ==
    CASE req.op = "storagePoolCreateXML"    -> storagePoolCreateXMLBody(req, o)
      [] req.op = "storagePoolDefineXML"    -> storagePoolDefineXMLBody(req, o)
      [] req.op = "storagePoolUndefine"     -> storagePoolUndefineBody(req, o)
      [] req.op = "storagePoolCreate"       -> storagePoolCreateBody(req, o)
      [] req.op = "storagePoolBuild"        -> storagePoolBuildBody(req, o)
      [] req.op = "storagePoolDestroy"      -> storagePoolDestroyBody(req, o)
      [] req.op = "storagePoolDelete"       -> storagePoolDeleteBody(req, o)
      [] req.op = "storagePoolRefresh"      -> storagePoolRefreshBody(req, o)
      [] req.op = "storagePoolGetInfo"      -> storagePoolGetInfoBody(req, o)
      [] req.op = "storagePoolIsActive"     -> storagePoolIsActiveBody(req, o)
      [] req.op = "storagePoolLookupByUUID" -> storagePoolLookupByUUIDBody(req, o)
      [] req.op = "storagePoolLookupByName" -> storagePoolLookupByNameBody(req, o)
      [] req.op = "storagePoolSetAutostart" -> storagePoolSetAutostartBody(req, o)
      [] req.op = "virStorageVolPoolRefreshThread" -> virStorageVolPoolRefreshThreadBody(req, o)
      [] req.op = "storageVolCreateXML"     -> storageVolCreateXMLBody(req, o)
      [] req.op = "storageVolCreateXMLFrom" -> storageVolCreateXMLFromBody(req, o)
      [] req.op = "storageVolDelete"        -> storageVolDeleteBody(req, o)
      [] req.op = "storageVolDownload"      -> storageVolDownloadBody(req, o)
      [] req.op = "storageVolUpload"        -> storageVolUploadBody(req, o)
      [] req.op = "storageVolResize"        -> storageVolResizeBody(req, o)
      [] req.op = "storageVolWipePattern"   -> storageVolWipePatternBody(req, o)
      [] req.op = "storageVolGetInfoFlags"  -> storageVolGetInfoFlagsBody(req, o)
      [] req.op = "storageVolGetXMLDesc"    -> storageVolGetXMLDescBody(req, o)

Post(req, o) ==
    IF req.op = "storageVolCreateXML" THEN storageVolCreateXMLPost(req, o)
    ELSE storageVolCreateXMLFromPost(req, o)

Builds(req, o) ==
    CASE req.op = "storageVolCreateXML"     -> storageVolCreateXMLBuilds(req, o)
      [] req.op = "storageVolCreateXMLFrom" -> storageVolCreateXMLFromBuilds(req, o)
      [] OTHER -> FALSE

\* the pool object the handler works on: pool handlers look it up by UUID,
\* volume handlers by name
PoolOf(req) ==
    IF req.op \in {"storagePoolBuild", "storagePoolDestroy", "storagePoolDelete"}
    THEN Obj(pools, virStoragePoolObjFromStoragePool(req.h))
    ELSE Obj(pools, req.h.name)
Blocks(req) ==
    CASE req.op = "storagePoolCreateXML" ->
            /\ virStoragePoolObjIsDuplicate(pools, req.def, TRUE) = "OK"
            /\ virStoragePoolObjSourceFindDuplicate(pools, req.def) = "OK"
      [] req.op = "storagePoolCreate"  -> storagePoolCreateCheck(req) = "OK"
      [] req.op = "storagePoolBuild"   ->
            storagePoolBuildCheck(req) = "OK" /\ Has(PoolOf(req).def, "buildPool")
      [] req.op = "storagePoolDestroy" ->
            storagePoolDestroyCheck(req) = "OK" /\ Has(PoolOf(req).def, "stopPool")
      [] req.op = "storagePoolDelete"  ->
            storagePoolDeleteCheck(req) = "OK" /\ Has(PoolOf(req).def, "deletePool")
      [] req.op = "storagePoolRefresh" -> storagePoolRefreshCheck(req) = "OK"
      [] req.op = "virStorageVolPoolRefreshThread" ->
            req.h.name \in Names(pools) /\ PoolOf(req).asyncjobs = 0
      [] req.op = "storageVolCreateXML"     -> storageVolCreateXMLCheck(req) = "OK"
      [] req.op = "storageVolCreateXMLFrom" -> storageVolCreateXMLFromCheck(req) = "OK"
      [] req.op = "storageVolDelete"   ->
            storageVolDeleteCheck(req) = "OK" /\ Has(PoolOf(req).def, "deleteVol")
      [] req.op = "storageVolDownload" -> storageVolDownloadCheck(req) = "OK"
      [] req.op = "storageVolUpload"   -> storageVolUploadCheck(req) = "OK"
      [] req.op = "storageVolResize"   -> storageVolResizeCheck(req) = "OK"
      [] req.op = "storageVolWipePattern" -> storageVolWipePatternCheck(req) = "OK"
      [] req.op \in {"storageVolGetInfoFlags", "storageVolGetXMLDesc"} ->
            virStorageVolDefFromVol(req) = "OK" /\ Has(PoolOf(req).def, "refreshVol")
      [] OTHER -> FALSE

\* a faulty HoldsDriver: no handler lets go of the driver lock early
HoldsDriverAlways(op) == TRUE
\* handlers that keep the driver lock until they return
HoldsDriver(op) ==
    op \in {"storagePoolCreateXML", "storagePoolDefineXML", "storagePoolUndefine",
            "storagePoolDestroy", "storagePoolRefresh", "storagePoolSetAutostart",
            "virStorageVolPoolRefreshThread"}

\* a faulty Need: the lookup locks every pool of the list on its way
NeedEveryPool(req) == [i \in DOMAIN pools |-> pools[i].def.name]
\* the pool object locks a handler takes while it holds the driver lock, in
\* order.  A clone from another pool locks its pool, unlocks it, locks the
\* source pool and locks its own pool again (lines 1962-1967): three entries,
\* the first of which is not kept.
Need(req) ==
    LET byUUID == virStoragePoolObjFindByUUID(pools, req.h.uuid)
        byName == virStoragePoolObjFindByName(pools, req.h.name)
        src == virStoragePoolObjFindByName(pools, req.spool)
        one(n) == IF n = "-" THEN <<>> ELSE <<n>>
    IN  CASE req.op \in {"storagePoolCreateXML", "storagePoolDefineXML"} ->
                IF req.def.name \in Names(pools) \/ Blocks(req) THEN <<req.def.name>> ELSE <<>>
          [] req.op = "storageVolCreateXMLFrom" ->
                IF byUUID = "-" THEN <<>>
                ELSE IF CloneCross(req) /\ src # "-" THEN <<byUUID, src, byUUID>>
                ELSE <<byUUID>>
          [] req.op \in {"virStorageVolPoolRefreshThread", "storagePoolLookupByName",
                         "storageVolDelete",
                         "storageVolDownload", "storageVolUpload", "storageVolResize",
                         "storageVolWipePattern", "storageVolGetInfoFlags",
                         "storageVolGetXMLDesc"} -> one(byName)
          [] OTHER -> one(byUUID)
\* the locks taken again after a build (lines 1894-1896, 2094-2098)
NeedAgain(req) ==
    IF req.op = "storageVolCreateXMLFrom" /\ CloneCross(req)
    THEN <<req.h.name, req.spool>> ELSE <<req.h.name>>

\* the pool locks once t holds those of sequence need
Take(l, t, need) ==
    [n \in PoolNames |-> IF \E i \in DOMAIN need : need[i] = n THEN t ELSE l[n]]
Free(l, t) == [n \in PoolNames |-> IF l[n] = t THEN NoThread ELSE l[n]]
HeldBy(t) == { n \in PoolNames : poolLock[n] = t }

\* the handler returns: its effect e, every lock released
Commit(t, req, e) ==
    /\ pools' = e.pools
    /\ stateFiles' = e.sf
    /\ configFiles' = e.cf
    /\ autostartLinks' = e.al
    /\ streams' = e.st
    /\ ret' = [msg |-> e.msg, ev |-> e.ev]
    /\ th' = [th EXCEPT ![t] = Idle]
    /\ driverLock' = IF driverLock = t THEN NoThread ELSE driverLock
    /\ poolLock' = Free(poolLock, t)
    /\ UNCHANGED boot

\* the handler holds every lock it asked for (pl is the pool locks then)
Locked(t, req, pl) ==
    IF Blocks(req)
    THEN /\ th' = [th EXCEPT ![t] = [pc |-> "backend", req |-> req, need |-> <<>>]]
         /\ poolLock' = pl
         /\ driverLock' = IF HoldsDriver(req.op) THEN t ELSE NoThread
         /\ UNCHANGED <<pools, stateFiles, configFiles, autostartLinks, streams, ret, boot>>
    ELSE \E o \in {Good, [Good EXCEPT !.io = FALSE], [Good EXCEPT !.main = FALSE]} :
            Commit(t, req, Body(req, o))

\* the locks of sequence need that the handler keeps
Kept(need) == IF Len(need) = 3 THEN Tail(need) ELSE need
\* the handler locks an object that it holds already: the source pool's name
\* is the name of the pool that the handle's UUID finds, and is not the name
\* in the handle (lines 1962-1967)
LocksTwice(need) ==
    \E i, j \in DOMAIN Kept(need) : i # j /\ Kept(need)[i] = Kept(need)[j]
\* a handler is entered: storageDriverLock() and the lookup
Begin(t, req) ==
    /\ boot.phase = "running"
    /\ driverLock = NoThread
    /\ IF /\ \A i \in DOMAIN Need(req) : poolLock[Need(req)[i]] = NoThread
          /\ ~LocksTwice(Need(req))
       THEN Locked(t, req, Take(poolLock, t, Need(req)))
       ELSE /\ th' = [th EXCEPT ![t] = [pc |-> "lookup", req |-> req, need |-> Need(req)]]
            /\ driverLock' = t
            /\ UNCHANGED <<pools, poolLock, stateFiles, configFiles, autostartLinks,
                           streams, ret, boot>>

\* virStoragePoolObjLock inside a lookup: the next pool lock, once it is free
virStoragePoolObjLock(t) ==
    /\ th[t].pc = "lookup"
    /\ poolLock[Head(th[t].need)] = NoThread
    /\ LET n == Head(th[t].need)
           rest == Tail(th[t].need)
           pl == IF Len(th[t].need) = 3 THEN poolLock ELSE [poolLock EXCEPT ![n] = t]
       IN  IF rest = <<>>
           THEN Locked(t, th[t].req, pl)
           ELSE /\ th' = [th EXCEPT ![t].need = rest]
                /\ poolLock' = pl
                /\ UNCHANGED <<pools, driverLock, stateFiles, configFiles, autostartLinks,
                               streams, ret, boot>>

\* the outcomes that make a difference to a handler
OutcomesOf(req) ==
    CASE req.op \in {"storagePoolCreateXML", "storagePoolCreate"} -> PoolOutcomes
      [] req.op = "storagePoolBuild" -> { o \in PoolOutcomes : o = [Good EXCEPT !.pre = o.pre] }
      [] req.op \in {"storagePoolDestroy", "storagePoolDelete"} ->
            { o \in PoolOutcomes : o = [Good EXCEPT !.main = o.main] }
      [] req.op \in {"storagePoolRefresh", "virStorageVolPoolRefreshThread"} ->
            { o \in PoolOutcomes : o = [Good EXCEPT !.refresh = o.refresh, !.scan = o.scan] }
      [] req.op \in {"storageVolDelete", "storageVolDownload", "storageVolUpload",
                     "storageVolResize"} ->
            { o \in VolOutcomes : o = [Good EXCEPT !.main = o.main] }
      [] req.op = "storageVolWipePattern" ->
            { o \in VolOutcomes : o = [Good EXCEPT !.main = o.main, !.refresh = o.refresh,
                                                    !.alloc = o.alloc] }
      [] req.op \in {"storageVolGetInfoFlags", "storageVolGetXMLDesc"} ->
            { o \in VolOutcomes : o = [Good EXCEPT !.refresh = o.refresh, !.alloc = o.alloc] }
      [] OTHER -> VolOutcomes
\* the outcomes that make a difference after a build
BuildOutcomes == { o \in VolOutcomes : o.pre }

\* a faulty BackendReturn: the pool lock is kept across the build
BackendReturnKeepsLock(t) ==
    /\ th[t].pc = "backend"
    /\ \E o \in OutcomesOf(th[t].req) :
         IF Builds(th[t].req, o)
         THEN /\ pools' = Body(th[t].req, o).pools
              /\ th' = [th EXCEPT ![t].pc = "build"]
              /\ UNCHANGED <<poolLock, driverLock, stateFiles, configFiles, autostartLinks,
                             streams, ret, boot>>
         ELSE Commit(t, th[t].req, Body(th[t].req, o))

\* the blocking backend call returns; the handler runs to its end, or to the
\* point where it drops the pool lock for a build
BackendReturn(t) ==
    /\ th[t].pc = "backend"
    /\ \E o \in OutcomesOf(th[t].req) :
         IF Builds(th[t].req, o)
         THEN /\ pools' = Body(th[t].req, o).pools
              /\ th' = [th EXCEPT ![t].pc = "build"]
              /\ poolLock' = Free(poolLock, t)
              /\ UNCHANGED <<driverLock, stateFiles, configFiles, autostartLinks,
                             streams, ret, boot>>
         ELSE Commit(t, th[t].req, Body(th[t].req, o))

\* a faulty BuildReturn: the builder finishes without waiting for the locks
BuildReturnTakesNoLock(t) ==
    /\ th[t].pc = "build"
    /\ \E o \in BuildOutcomes : Commit(t, th[t].req, Post(th[t].req, o))

\* backend->buildVol / buildVolFrom has returned: storageDriverLock()
BuildReturn(t) ==
    /\ th[t].pc = "build"
    /\ driverLock = NoThread
    /\ IF \A i \in DOMAIN NeedAgain(th[t].req) : poolLock[NeedAgain(th[t].req)[i]] = NoThread
       THEN \E o \in BuildOutcomes : Commit(t, th[t].req, Post(th[t].req, o))
       ELSE /\ driverLock' = t
            /\ th' = [th EXCEPT ![t].pc = "relock", ![t].need = NeedAgain(th[t].req)]
            /\ UNCHANGED <<pools, poolLock, stateFiles, configFiles, autostartLinks,
                           streams, ret, boot>>

\* the builder locks its pool (and the source pool) again, unlocks the driver
\* and finishes
Relock(t) ==
    /\ th[t].pc = "relock"
    /\ poolLock[Head(th[t].need)] = NoThread
    /\ IF Len(th[t].need) > 1
       THEN /\ th' = [th EXCEPT ![t].need = Tail(@)]
            /\ poolLock' = [poolLock EXCEPT ![Head(th[t].need)] = t]
            /\ UNCHANGED <<pools, driverLock, stateFiles, configFiles, autostartLinks,
                           streams, ret, boot>>
       ELSE \E o \in BuildOutcomes : Commit(t, th[t].req, Post(th[t].req, o))

----------------------------------------------------------------------------
\* Start-up of the daemon

\* What the state and config directories hold for one pool name when the
\* daemon starts, as virStoragePoolObjLoadAllState and
\* virStoragePoolObjLoadAllConfigs leave it in the list: a pool loaded from
\* the state directory is active; a config file read for it afterwards is
\* its pending definition.
DefsOf(n) == { d \in PoolDefs : d.name = n }
Loaded(kind, sdef, cdef, link) ==
    CASE kind = "state"  -> [NewPoolObj(sdef) EXCEPT !.active = TRUE]
      [] kind = "config" -> [NewPoolObj(cdef) EXCEPT !.configFile = TRUE, !.autostart = link]
      [] kind = "both"   -> [NewPoolObj(sdef) EXCEPT !.active = TRUE, !.newDef = cdef,
                                                     !.configFile = TRUE, !.autostart = link]
OnDisk(n) ==
    { Loaded("state", d, d, FALSE) : d \in DefsOf(n) }
    \cup { Loaded("config", d, d, l) : d \in DefsOf(n), l \in BOOLEAN }
    \cup { Loaded("both", d, c, l) : d \in DefsOf(n), c \in DefsOf(n), l \in BOOLEAN }
\* the list after both loads: pools of the state directory first
LoadedLists ==
    LET one == { <<o>> : o \in OnDisk("p1") \cup OnDisk("p2") }
        two == { <<a, b>> : a \in OnDisk("p1"), b \in OnDisk("p2") }
                 \cup { <<b, a>> : a \in OnDisk("p1"), b \in OnDisk("p2") }
        ordered(l) == \A i, j \in DOMAIN l : (i < j /\ l[j].active) => l[i].active
        distinct(l) == \A i, j \in DOMAIN l :
                          (i # j) => l[i].def.source # l[j].def.source
    IN  { l \in {<<>>} \cup one \cup two : ordered(l) /\ distinct(l) }

\* the daemon at the start of storagePoolUpdateAllState, the directories
\* holding one of the lists L
Boot(L) ==
    /\ pools \in L
    /\ driverLock = Daemon
    /\ poolLock = [n \in PoolNames |-> NoThread]
    /\ stateFiles = { pools[i].def.name : i \in { j \in DOMAIN pools : pools[j].active } }
    /\ configFiles = { pools[i].def.name : i \in { j \in DOMAIN pools : pools[j].configFile } }
    /\ autostartLinks = { pools[i].def.name : i \in { j \in DOMAIN pools : pools[j].autostart } }
    /\ th = [t \in Threads |-> Idle]
    /\ boot = [phase |-> "init", i |-> 1, uaf |-> FALSE]
    /\ streams = {}
    /\ ret = [msg |-> "OK", ev |-> <<>>]

\* the pool object after storagePoolUpdateState's checkPool / refreshPool:
\* o.main is checkPool's success and o.pre what it reports
storagePoolUpdateState(obj, o) ==
    LET active == Has(obj.def, "checkPool") /\ o.pre /\ o.main /\ o.refresh
    IN  IF active THEN [refreshPool(obj, o.scan) EXCEPT !.active = TRUE]
        ELSE IF Has(obj.def, "checkPool") /\ o.pre /\ o.main
             THEN [virStoragePoolObjClearVols(obj) EXCEPT !.active = FALSE]
        ELSE [obj EXCEPT !.active = FALSE]

\* one iteration of storagePoolUpdateAllState's loop.  When the pool is
\* removed from the list the list shifts down under the loop index, and the
\* loop unlocks the object it has just freed.
storagePoolUpdateAllState ==
    /\ boot.phase = "init"
    /\ boot.i <= Len(pools)
    /\ \E o \in PoolOutcomes :
         LET n == pools[boot.i].def.name
             obj == storagePoolUpdateState(pools[boot.i], o)
             ps1 == SetObj(pools, n, obj)
             ps2 == IF obj.active THEN ps1 ELSE virStoragePoolUpdateInactive(ps1, n)
         IN  /\ pools' = ps2
             /\ stateFiles' = IF obj.active THEN stateFiles ELSE stateFiles \ {n}
             /\ boot' = [boot EXCEPT !.i = @ + 1, !.uaf = Len(ps2) < Len(pools)]
    /\ UNCHANGED <<driverLock, poolLock, configFiles, autostartLinks, th, streams, ret>>

\* storageStateInitialize returns
storageStateInitialize ==
    /\ boot.phase = "init"
    /\ boot.i > Len(pools)
    /\ boot' = [phase |-> "ready", i |-> 1, uaf |-> FALSE]
    /\ driverLock' = NoThread
    /\ UNCHANGED <<pools, poolLock, stateFiles, configFiles, autostartLinks, th, streams, ret>>

storageStateAutoStart ==
    /\ boot.phase = "ready"
    /\ driverLock = NoThread
    /\ driverLock' = Daemon
    /\ boot' = [boot EXCEPT !.phase = "autostart", !.i = 1]
    /\ UNCHANGED <<pools, poolLock, stateFiles, configFiles, autostartLinks, th, streams, ret>>

\* a faulty storageDriverAutostart: the first pool that fails to start ends the pass
AutostartStopsAtFailure ==
    /\ boot.phase = "autostart"
    /\ IF boot.i > Len(pools)
       THEN /\ boot' = [boot EXCEPT !.phase = "running", !.i = 1]
            /\ driverLock' = NoThread
            /\ UNCHANGED <<pools, stateFiles>>
       ELSE /\ poolLock[pools[boot.i].def.name] = NoThread
            /\ UNCHANGED driverLock
            /\ \E o \in PoolOutcomes :
                 LET obj == pools[boot.i]
                     n == obj.def.name
                 IN  IF ~(obj.autostart /\ ~obj.active) \/ virStorageBackendForType(obj.def.type) = {}
                     THEN /\ boot' = [boot EXCEPT !.i = @ + 1]
                          /\ UNCHANGED <<pools, stateFiles>>
                     ELSE IF Has(obj.def, "startPool") /\ ~o.main
                     THEN /\ boot' = [boot EXCEPT !.i = Len(pools) + 1]
                          /\ UNCHANGED <<pools, stateFiles>>
                     ELSE IF ~o.io \/ ~o.refresh
                     THEN /\ boot' = [boot EXCEPT !.i = Len(pools) + 1]
                          /\ pools' = SetObj(pools, n, virStoragePoolObjClearVols(obj))
                          /\ stateFiles' = stateFiles \ {n}
                     ELSE /\ boot' = [boot EXCEPT !.i = @ + 1]
                          /\ pools' = SetObj(pools, n, [refreshPool(obj, o.scan)
                                                           EXCEPT !.active = TRUE])
                          /\ stateFiles' = stateFiles \cup {n}
    /\ UNCHANGED <<poolLock, configFiles, autostartLinks, th, streams, ret>>

\* one iteration of storageDriverAutostart's loop, or its end
storageDriverAutostart ==
    /\ boot.phase = "autostart"
    /\ IF boot.i > Len(pools)
       THEN /\ boot' = [boot EXCEPT !.phase = "running", !.i = 1]
            /\ driverLock' = NoThread
            /\ UNCHANGED <<pools, stateFiles>>
       ELSE /\ poolLock[pools[boot.i].def.name] = NoThread
            /\ boot' = [boot EXCEPT !.i = @ + 1]
            /\ UNCHANGED driverLock
            /\ \E o \in PoolOutcomes :
                 LET obj == pools[boot.i]
                     n == obj.def.name
                 IN  IF ~(obj.autostart /\ ~obj.active) \/ virStorageBackendForType(obj.def.type) = {}
                        \/ (Has(obj.def, "startPool") /\ ~o.main)
                     THEN UNCHANGED <<pools, stateFiles>>
                     ELSE IF ~o.io \/ ~o.refresh
                     THEN /\ pools' = SetObj(pools, n, virStoragePoolObjClearVols(obj))
                          /\ stateFiles' = stateFiles \ {n}
                     ELSE /\ pools' = SetObj(pools, n, [refreshPool(obj, o.scan)
                                                           EXCEPT !.active = TRUE])
                          /\ stateFiles' = stateFiles \cup {n}
    /\ UNCHANGED <<poolLock, configFiles, autostartLinks, th, streams, ret>>

----------------------------------------------------------------------------
\* The entry points.  Each is a call by an idle thread with arguments of the
\* caller's choosing.  E is what the callers have: the threads E.T they call
\* from, the pool definitions E.D they submit, the pools E.P and the volumes
\* E.V they address, the volumes E.S they clone from, the capacities E.C
\* they ask for and the resize flags E.F they pass.

Req(op, h) == [NoReq EXCEPT !.op = op, !.h = h]
HandleOf(def) == [name |-> def.name, uuid |-> def.uuid]
HandlesIn(E) == { h \in Handles : h.name \in E.P }
Caller(t) == th[t].pc = "idle"
BuildFlags == { {}, {"build"} }
ResizeFlags == SUBSET {"allocate", "delta", "shrink"}

storagePoolCreateXML(E) ==
    \E t \in E.T, def \in E.D, f \in BuildFlags :
       /\ Caller(t)
       /\ Begin(t, [Req("storagePoolCreateXML", HandleOf(def)) EXCEPT !.def = def, !.flags = f])
storagePoolDefineXML(E) ==
    \E t \in E.T, def \in E.D :
       /\ Caller(t)
       /\ Begin(t, [Req("storagePoolDefineXML", HandleOf(def)) EXCEPT !.def = def])
storagePoolUndefine(E) ==
    \E t \in E.T, h \in HandlesIn(E) : Caller(t) /\ Begin(t, Req("storagePoolUndefine", h))
storagePoolCreate(E) ==
    \E t \in E.T, h \in HandlesIn(E), f \in BuildFlags :
       Caller(t) /\ Begin(t, [Req("storagePoolCreate", h) EXCEPT !.flags = f])
storagePoolBuild(E) ==
    \E t \in E.T, h \in HandlesIn(E) : Caller(t) /\ Begin(t, Req("storagePoolBuild", h))
storagePoolDestroy(E) ==
    \E t \in E.T, h \in HandlesIn(E) : Caller(t) /\ Begin(t, Req("storagePoolDestroy", h))
storagePoolDelete(E) ==
    \E t \in E.T, h \in HandlesIn(E) : Caller(t) /\ Begin(t, Req("storagePoolDelete", h))
storagePoolRefresh(E) ==
    \E t \in E.T, h \in HandlesIn(E) : Caller(t) /\ Begin(t, Req("storagePoolRefresh", h))
storagePoolGetInfo(E) ==
    \E t \in E.T, h \in HandlesIn(E) : Caller(t) /\ Begin(t, Req("storagePoolGetInfo", h))
storagePoolIsActive(E) ==
    \E t \in E.T, h \in HandlesIn(E) : Caller(t) /\ Begin(t, Req("storagePoolIsActive", h))
storagePoolLookupByUUID(E) ==
    \E t \in E.T, h \in HandlesIn(E) : Caller(t) /\ Begin(t, Req("storagePoolLookupByUUID", h))
storagePoolLookupByName(E) ==
    \E t \in E.T, h \in HandlesIn(E) : Caller(t) /\ Begin(t, Req("storagePoolLookupByName", h))
storagePoolSetAutostart(E) ==
    \E t \in E.T, h \in HandlesIn(E), f \in { {}, {"autostart"} } :
       Caller(t) /\ Begin(t, [Req("storagePoolSetAutostart", h) EXCEPT !.flags = f])

storageVolCreateXML(E) ==
    \E t \in E.T, h \in HandlesIn(E), v \in E.V, c \in E.C :
       Caller(t) /\ Begin(t, [Req("storageVolCreateXML", h) EXCEPT !.vol = v, !.cap = c])
storageVolCreateXMLFrom(E) ==
    \E t \in E.T, h \in HandlesIn(E), v \in E.V, sp \in E.P, sv \in E.S, c \in E.C :
       /\ Caller(t)
       /\ Begin(t, [Req("storageVolCreateXMLFrom", h)
                       EXCEPT !.vol = v, !.spool = sp, !.svol = sv, !.cap = c])
storageVolDelete(E) ==
    \E t \in E.T, h \in HandlesIn(E), v \in E.V :
       Caller(t) /\ Begin(t, [Req("storageVolDelete", h) EXCEPT !.vol = v])
storageVolDownload(E) ==
    \E t \in E.T, h \in HandlesIn(E), v \in E.V :
       Caller(t) /\ Begin(t, [Req("storageVolDownload", h) EXCEPT !.vol = v])
storageVolUpload(E) ==
    \E t \in E.T, h \in HandlesIn(E), v \in E.V :
       Caller(t) /\ Begin(t, [Req("storageVolUpload", h) EXCEPT !.vol = v])
storageVolResize(E) ==
    \E t \in E.T, h \in HandlesIn(E), v \in E.V, c \in E.C, f \in E.F :
       Caller(t) /\ Begin(t, [Req("storageVolResize", h) EXCEPT !.vol = v, !.cap = c, !.flags = f])
storageVolWipePattern(E) ==
    \E t \in E.T, h \in HandlesIn(E), v \in E.V, alg \in {0, VIR_STORAGE_VOL_WIPE_ALG_LAST} :
       Caller(t) /\ Begin(t, [Req("storageVolWipePattern", h) EXCEPT !.vol = v, !.cap = alg])
storageVolGetInfoFlags(E) ==
    \E t \in E.T, h \in HandlesIn(E), v \in E.V :
       Caller(t) /\ Begin(t, [Req("storageVolGetInfoFlags", h) EXCEPT !.vol = v])
storageVolGetXMLDesc(E) ==
    \E t \in E.T, h \in HandlesIn(E), v \in E.V :
       Caller(t) /\ Begin(t, [Req("storageVolGetXMLDesc", h) EXCEPT !.vol = v])

\* an upload's stream is closed: the callback creates the refresh thread
virStorageVolFDStreamCloseCb ==
    \E t \in Threads, n \in streams :
       /\ Caller(t)
       /\ th' = [th EXCEPT ![t] = [pc |-> "spawned", need |-> <<>>,
                                   req |-> Req("virStorageVolPoolRefreshThread",
                                               [name |-> n, uuid |-> "-"])]]
       /\ streams' = streams \ {n}
       /\ UNCHANGED <<pools, driverLock, poolLock, stateFiles, configFiles,
                      autostartLinks, boot, ret>>
virStorageVolPoolRefreshThread ==
    \E t \in Threads : th[t].pc = "spawned" /\ Begin(t, th[t].req)

\* the steps inside the daemon: its start-up, and the handlers under way
Startup ==
    \/ storagePoolUpdateAllState
    \/ storageStateInitialize
    \/ storageStateAutoStart
    \/ storageDriverAutostart
Handlers ==
    \/ \E t \in Threads : virStoragePoolObjLock(t)
    \/ \E t \in Threads : BackendReturn(t)
BuildHandlers ==
    \/ \E t \in Threads : BuildReturn(t)
    \/ \E t \in Threads : Relock(t)

----------------------------------------------------------------------------
\* The whole driver: every entry point, called from every thread with every
\* argument
Everything == [T |-> Threads, D |-> PoolDefs, P |-> PoolNames, V |-> VolNames,
               S |-> VolNames, C |-> 0..MaxCap, F |-> ResizeFlags]
Init == Boot(LoadedLists)
Next ==
    \/ Startup
    \/ storagePoolCreateXML(Everything)
    \/ storagePoolDefineXML(Everything)
    \/ storagePoolUndefine(Everything)
    \/ storagePoolCreate(Everything)
    \/ storagePoolBuild(Everything)
    \/ storagePoolDestroy(Everything)
    \/ storagePoolDelete(Everything)
    \/ storagePoolRefresh(Everything)
    \/ storagePoolGetInfo(Everything)
    \/ storagePoolIsActive(Everything)
    \/ storagePoolLookupByUUID(Everything)
    \/ storagePoolLookupByName(Everything)
    \/ storagePoolSetAutostart(Everything)
    \/ storageVolCreateXML(Everything)
    \/ storageVolCreateXMLFrom(Everything)
    \/ storageVolDelete(Everything)
    \/ storageVolDownload(Everything)
    \/ storageVolUpload(Everything)
    \/ storageVolResize(Everything)
    \/ storageVolWipePattern(Everything)
    \/ storageVolGetInfoFlags(Everything)
    \/ storageVolGetXMLDesc(Everything)
    \/ virStorageVolFDStreamCloseCb
    \/ virStorageVolPoolRefreshThread
    \/ Handlers
    \/ BuildHandlers
Spec == Init /\ [][Next]_vars

----------------------------------------------------------------------------
\* The life cycle of one pool.  The directories hold pool p1 in any form, and
\* possibly a state file of the disk pool p2, left by an earlier run; two
\* clients call every pool entry point on p1.

LifeCalls == [Everything EXCEPT !.D = DefsOf("p1"), !.P = {"p1"}]
InitLife ==
    Boot({ l \in LoadedLists :
             \A i \in DOMAIN l : l[i].def.name = "p2" =>
                                    l[i].def.type = "disk" /\ ~l[i].configFile })
NextLife ==
    \/ Startup
    \/ storagePoolCreateXML(LifeCalls)
    \/ storagePoolDefineXML(LifeCalls)
    \/ storagePoolUndefine(LifeCalls)
    \/ storagePoolCreate(LifeCalls)
    \/ storagePoolBuild(LifeCalls)
    \/ storagePoolDestroy(LifeCalls)
    \/ storagePoolDelete(LifeCalls)
    \/ storagePoolRefresh(LifeCalls)
    \/ storagePoolGetInfo(LifeCalls)
    \/ storagePoolSetAutostart(LifeCalls)
    \/ Handlers
SpecLife == InitLife /\ [][NextLife]_vars

\* no start-up pass and no handler is at work on pool object i of the list
Settled(ps, pl, b, i) == b.phase # "init" /\ pl[ps[i].def.name] = NoThread

ActiveHasStateFile(ps, pl, b, sf) ==
    \A i \in DOMAIN ps : (Settled(ps, pl, b, i) /\ ps[i].active) => ps[i].def.name \in sf
InactiveHasNoStateFile(ps, pl, b, sf) ==
    \A i \in DOMAIN ps : (Settled(ps, pl, b, i) /\ ~ps[i].active) => ps[i].def.name \notin sf

\* C1: once the daemon has started, no call and no autostart pass takes the
\* driver from a state in which every active pool that is not being worked
\* on has its state file to a state in which one has none.
C1_ActiveKeepsStateFile ==
    [][ (boot.phase # "init" /\ ActiveHasStateFile(pools, poolLock, boot, stateFiles))
          => ActiveHasStateFile(pools', poolLock', boot', stateFiles') ]_vars

\* C2: once the daemon has started, no call and no autostart pass that adds
\* no pool to the list and removes none takes the driver from a state in
\* which no inactive pool that is not being worked on has a state file to a
\* state in which one has.
C2_InactiveKeepsNoStateFile ==
    [][ (/\ boot.phase # "init"
         /\ Names(pools) = Names(pools')
         /\ InactiveHasNoStateFile(pools, poolLock, boot, stateFiles))
          => InactiveHasNoStateFile(pools', poolLock', boot', stateFiles') ]_vars

\* C7: every pool of the list that is not being worked on has a config file
\* or is active.
C7_TransientIsActive ==
    \A i \in DOMAIN pools :
       Settled(pools, poolLock, boot, i) => (pools[i].configFile \/ pools[i].active)
\* storagePoolDestroy has just stopped the transient pool p1, and p1 is gone
C7_Witness ==
    /\ ret = [msg |-> "OK", ev |-> <<Event("stopped", "p1")>>]
    /\ "p1" \notin Names(pools)
    /\ "p1" \notin configFiles

\* C8: no pool of the list that is not being worked on is inactive with a
\* pending definition, and a step that leaves an active pool with a pending
\* definition inactive in the list makes the pending definition the current
\* one.
Promotes(n) ==
    (/\ n \in Names(pools) /\ n \in Names(pools')
     /\ Obj(pools, n).active /\ Obj(pools, n).newDef # NoDef
     /\ ~Obj(pools', n).active)
    => Obj(pools', n).def = Obj(pools, n).newDef
C8_NoInactivePending ==
    /\ [](\A i \in DOMAIN pools :
             (Settled(pools, poolLock, boot, i) /\ ~pools[i].active)
                => pools[i].newDef = NoDef)
    /\ [][\A n \in PoolNames : Promotes(n)]_vars
\* storagePoolDestroy is inside stopPool on the active pool p1, which has a
\* pending definition
C8_Witness ==
    \E t \in Threads :
       /\ th[t].pc = "backend"
       /\ th[t].req.op = "storagePoolDestroy"
       /\ Obj(pools, "p1").active
       /\ Obj(pools, "p1").newDef # NoDef
       /\ Obj(pools, "p1").newDef # Obj(pools, "p1").def

----------------------------------------------------------------------------
\* Steps of one handler, and the errors the driver's callers tell apart

\* the step in which thread t's handler for request r holds its locks and
\* makes its checks
Decides(t, r) ==
    \/ Caller(t) /\ Begin(t, r) /\ th'[t].pc # "lookup"
    \/ th[t].pc = "lookup" /\ th[t].req = r /\ virStoragePoolObjLock(t) /\ th'[t].pc # "lookup"
\* thread t can make its checks in this step
MayDecide(t) == th[t].pc \in {"idle", "lookup"} /\ driverLock \in {NoThread, t}
\* t's handler returns an error, with nothing changed and no event queued
Rejected(t) ==
    /\ th'[t].pc = "idle"
    /\ ret'.msg # "OK"
    /\ ret'.ev = <<>>
    /\ UNCHANGED <<pools, stateFiles, configFiles, autostartLinks, streams>>
\* the errors that say the operation is forbidden by the current state
InvalidState ==
    {"pool is not active", "pool is already active", "pool is still active",
     "pool has asynchronous jobs running", "volume is still in use",
     "volume is still being allocated"}

----------------------------------------------------------------------------
\* Pools with jobs running.  The directories hold the persistent pool p1,
\* running, and the disk pool p2, to be autostarted; two clients create
\* volume v2 in p1 and clone into v1 from either pool, one of them also
\* stops, starts, refreshes, deletes and undefines p1 and downloads from it.

Builders == [Everything EXCEPT !.P = {"p1"}, !.V = {"v2"}, !.C = {MaxCap}]
Cloners == [Everything EXCEPT !.V = {"v1"}, !.C = {MaxCap}]
Owners == [Everything EXCEPT !.T = {"t2"}, !.P = {"p1"}, !.V = {"v1"}]
RunningPair ==
    { l \in LoadedLists :
        /\ Len(l) = 2
        /\ l[1].def.name = "p1" /\ l[1].def.source = "s1"
        /\ l[1].active /\ l[1].configFile /\ l[1].newDef = l[1].def /\ ~l[1].autostart
        /\ ~l[2].active /\ l[2].autostart /\ l[2].def.type = "disk" }
InitJobs == Boot(RunningPair)
NextJobs ==
    \/ Startup
    \/ storageVolCreateXML(Builders)
    \/ storageVolCreateXMLFrom(Cloners)
    \/ storagePoolUndefine(Owners)
    \/ storagePoolCreate(Owners)
    \/ storagePoolDestroy(Owners)
    \/ storagePoolDelete(Owners)
    \/ storagePoolRefresh(Owners)
    \/ storageVolDownload(Owners)
    \/ Handlers
    \/ BuildHandlers
SpecJobs == InitJobs /\ [][NextJobs]_vars

BuildsOn(n) ==
    { t \in Threads : /\ th[t].pc \in {"build", "relock"}
                      /\ n \in {th[t].req.h.name, th[t].req.spool} }
C4_JobsCountBuilds ==
    \A i \in DOMAIN pools :
       /\ pools[i].asyncjobs >= 0
       /\ pools[i].asyncjobs = Cardinality(BuildsOn(pools[i].def.name))
\* two builds run in p1, one of them a clone from p2
C4_Witness ==
    /\ Names(pools) = {"p1", "p2"}
    /\ Obj(pools, "p1").asyncjobs = 2
    /\ Obj(pools, "p2").asyncjobs = 1

----------------------------------------------------------------------------
\* Volumes under construction.  The directory pool p1 is running; client t1
\* creates volume v2, from nothing or as a clone of v1, and meanwhile client
\* t2 deletes, downloads, uploads, resizes and wipes v1 and v2 and clones v2.

Builder == [Everything EXCEPT !.T = {"t1"}, !.P = {"p1"}, !.V = {"v2"},
                              !.S = {"v1"}, !.C = {MaxCap}]
Other == [Everything EXCEPT !.T = {"t2"}, !.P = {"p1"}, !.S = {"v2"},
                            !.C = {MaxCap}, !.F = {{}}]
RunningAlone ==
    { l \in LoadedLists :
        /\ Names(l) = {"p1"}
        /\ l[1].active /\ l[1].configFile /\ l[1].newDef = l[1].def /\ ~l[1].autostart }
InitBusy == Boot(RunningAlone)
NextBusy ==
    \/ Startup
    \/ storageVolCreateXML(Builder)
    \/ storageVolCreateXMLFrom(Builder)
    \/ storageVolCreateXMLFrom([Other EXCEPT !.V = {"v1"}])
    \/ storageVolDelete(Other)
    \/ storageVolDownload(Other)
    \/ storageVolUpload(Other)
    \/ storageVolResize(Other)
    \/ storageVolWipePattern(Other)
    \/ Handlers
    \/ BuildHandlers
SpecBusy == InitBusy /\ [][NextBusy]_vars

\* every call a client can make of a handler on volume v of the pool h names
CallsOn(op, h, v) ==
    { [Req(op, h) EXCEPT !.vol = v, !.cap = c, !.flags = f] :
         c \in IF op \in {"storageVolResize", "storageVolWipePattern"}
               THEN 0..VIR_STORAGE_VOL_WIPE_ALG_LAST ELSE {0},
         f \in IF op = "storageVolResize" THEN ResizeFlags ELSE {{}} }
\* every call that clones volume v of the pool named n
ClonesOf(n, v) ==
    { [Req("storageVolCreateXMLFrom", h) EXCEPT !.vol = w, !.spool = n, !.svol = v, !.cap = c] :
         h \in Handles, w \in VolNames, c \in 0..MaxCap }
IsVol(h, v) ==
    /\ virStoragePoolObjFromStoragePool(h) # "-"
    /\ v \in DOMAIN Obj(pools, h.name).vols
Forbidden == {"volume is still in use", "volume is still being allocated"}
\* the checks a handler makes before it looks at the volume's flags
RejectedEarlier(r) ==
    \/ /\ r.op = "storageVolWipePattern"
       /\ r.cap >= VIR_STORAGE_VOL_WIPE_ALG_LAST
       /\ ret'.msg = "invalid argument"
    \/ /\ r.op = "storageVolCreateXMLFrom"
       /\ ret'.msg \in {"no storage pool", "pool is not active",
                        "volume name already in use", "not supported"}
BuildingOps ==
    {"storageVolDelete", "storageVolUpload", "storageVolResize",
     "storageVolWipePattern", "storageVolDownload"}
InUseOps ==
    {"storageVolDelete", "storageVolUpload", "storageVolResize", "storageVolWipePattern"}
\* the calls that a volume under construction turns down, and those that a
\* volume read by a clone does
BuildingCalls(h, v) ==
    UNION { CallsOn(op, h, v) : op \in BuildingOps } \cup ClonesOf(h.name, v)
InUseCalls(h, v) == UNION { CallsOn(op, h, v) : op \in InUseOps }
IsBuilding(h, v) == IsVol(h, v) /\ Obj(pools, h.name).vols[v].building
IsInUse(h, v) == IsVol(h, v) /\ Obj(pools, h.name).vols[v].in_use > 0
----------------------------------------------------------------------------
\* Two pools and the two kinds of lock.  The directories hold p1, running,
\* and the disk pool p2, autostarted; two clients stop and refresh the
\* pools, ask for their state, download volume v1 and create volume v2.

TwoPools == [Everything EXCEPT !.V = {"v1"}, !.C = {MaxCap}]
NextLock ==
    \/ Startup
    \/ storagePoolDestroy(TwoPools)
    \/ storagePoolRefresh(TwoPools)
    \/ storagePoolGetInfo(TwoPools)
    \/ storageVolCreateXML([TwoPools EXCEPT !.V = {"v2"}])
    \/ storageVolDownload(TwoPools)
    \/ Handlers
    \/ BuildHandlers
SpecLock == InitJobs /\ [][NextLock]_vars

\* the handlers whose code unlocks the driver as soon as the lookup returns
\* the locked pool object
EarlyRelease ==
    {"storagePoolCreate", "storagePoolBuild", "storagePoolDelete", "storagePoolGetInfo",
     "storageVolCreateXML", "storageVolCreateXMLFrom", "storageVolDelete",
     "storageVolDownload", "storageVolUpload", "storageVolResize",
     "storageVolWipePattern", "storageVolGetInfoFlags"}
\* the handlers whose code unlocks the driver at their cleanup label
LateRelease ==
    {"storagePoolCreateXML", "storagePoolUndefine", "storagePoolDestroy",
     "storagePoolRefresh", "virStorageVolPoolRefreshThread"}
InBackend(t) == th[t].pc = "backend"
\* the pools a request names
Named(req) == {req.h.name, req.def.name, req.spool}

----------------------------------------------------------------------------
\* Sizes and counters.  The directory pool p1 is running; one client creates
\* volume v2 in it, resizes it in every way and deletes it, and both clients
\* ask for the volume's state.

Sizer == [Everything EXCEPT !.T = {"t1"}, !.P = {"p1"}, !.V = {"v2"}]
NextSize ==
    \/ Startup
    \/ storageVolCreateXML(Sizer)
    \/ storageVolGetInfoFlags([Sizer EXCEPT !.T = Threads])
    \/ storageVolResize(Sizer)
    \/ storageVolDelete(Sizer)
    \/ Handlers
    \/ BuildHandlers
SpecSize == InitBusy /\ [][NextSize]_vars

\* the counters of pool n as its last scan left them: under SpecSize the
\* clients touch volume v2 only, which no scan finds, so these are the values
\* before v2 was created
Scanned(n) ==
    LET others == [w \in DOMAIN Obj(pools, n).vols \ {"v2"} |-> Obj(pools, n).vols[w]]
    IN  [allocation |-> SumAlloc(others, DOMAIN others),
         available |-> PoolAvail - SumAlloc(others, DOMAIN others)]

\* C14: whenever the running directory pool p1 is unlocked and holds no
\* volume v2, that is before v2 is created and after it has been deleted,
\* its allocation and available are the values its scan left.
C14_DeleteRestoresCounters ==
    (/\ boot.phase = "running"
     /\ "p1" \in Names(pools)
     /\ poolLock["p1"] = NoThread
     /\ Obj(pools, "p1").active
     /\ "v2" \notin DOMAIN Obj(pools, "p1").vols)
    => /\ Obj(pools, "p1").allocation = Scanned("p1").allocation
       /\ Obj(pools, "p1").available = Scanned("p1").available

\* the capacity a resize asks for, as the interface defines it
AskedCapacity(vd, r) ==
    IF "delta" \in r.flags
    THEN IF "shrink" \in r.flags
         THEN IF r.cap <= vd.capacity THEN vd.capacity - r.cap ELSE 0
         ELSE vd.capacity + r.cap
    ELSE r.cap
ResizeCalls(h, v) ==
    { [Req("storageVolResize", h) EXCEPT !.vol = v, !.cap = c, !.flags = f] :
         c \in 0..MaxCap, f \in ResizeFlags }
\* thread t's backend call for request r returns and the handler succeeds
Succeeds(t, r) ==
    /\ th[t].pc = "backend"
    /\ th[t].req = r
    /\ BackendReturn(t)
    /\ ret'.msg = "OK"

\* C11: a Resize that makes its checks on a volume of a running pool, and
\* whose target capacity as the handler computes it is below the volume's
\* allocation, or below its capacity while the shrink flag is not set,
\* returns an error without a backend call and with the volume and the
\* pool counters unchanged.
C11_ResizeRefusesShrink ==
    [][ \A h \in Handles, v \in VolNames : (IsVol(h, v) /\ Obj(pools, h.name).active) =>
          \A t \in Threads : MayDecide(t) =>
             \A r \in ResizeCalls(h, v) :
                LET vd == Obj(pools, h.name).vols[v]
                    target == AskedCapacity(vd, r) % Wrap
                IN  (/\ \/ target < vd.allocation
                        \/ target < vd.capacity /\ "shrink" \notin r.flags
                     /\ Decides(t, r))
                    => Rejected(t) ]_vars
\* a resize below the allocation has been refused with the volume as it was
C11_Witness ==
    /\ ret.msg = "invalid argument"
    /\ "p1" \in Names(pools)
    /\ "v2" \in DOMAIN Obj(pools, "p1").vols
    /\ Obj(pools, "p1").vols["v2"].allocation > 0

\* C12: a Resize whose backend call succeeds leaves the volume with exactly
\* the capacity asked for; with the allocate flag the volume's allocation
\* is the new capacity and the pool's allocation and available have moved
\* by the new capacity minus the old allocation, which was not above the
\* pool's available; without the flag the volume's allocation and the
\* pool's counters are as before.
C12_ResizeSetsTarget ==
    [][ \A t \in Threads, h \in Handles, v \in VolNames :
          (th[t].pc = "backend" /\ th[t].req.op = "storageVolResize"
             /\ th[t].req.h = h /\ th[t].req.vol = v /\ Succeeds(t, th[t].req)) =>
             LET r == th[t].req
                 old == Obj(pools, h.name)
                 new == Obj(pools', h.name)
                 vd == old.vols[v]
                 target == AskedCapacity(vd, r)
                 d == target - vd.allocation
             IN  /\ new.vols[v].capacity = target
                 /\ "allocate" \in r.flags =>
                       /\ new.vols[v].allocation = target
                       /\ 0 <= d /\ d <= old.available
                       /\ new.available = old.available - d
                       /\ new.allocation = UAdd(old.allocation, d)
                 /\ "allocate" \notin r.flags =>
                       /\ new.vols[v].allocation = vd.allocation
                       /\ new.available = old.available
                       /\ new.allocation = old.allocation ]_vars
\* a volume grown and allocated: capacity and allocation 2, after a resize
C12_Witness ==
    /\ ret.msg = "OK"
    /\ "p1" \in Names(pools)
    /\ "v2" \in DOMAIN Obj(pools, "p1").vols
    /\ Obj(pools, "p1").vols["v2"].capacity = 2
    /\ Obj(pools, "p1").vols["v2"].allocation = 2

----------------------------------------------------------------------------
\* The pool type that reports its own counters.  The disk pool p2 has been
\* autostarted; one client creates volume v2 in it, resizes it and deletes
\* it, and both clients ask for the pool's state.

DiskUser == [Everything EXCEPT !.T = {"t1"}, !.P = {"p2"}, !.V = {"v2"}]
NextDisk ==
    \/ Startup
    \/ storagePoolGetInfo([DiskUser EXCEPT !.T = Threads])
    \/ storageVolCreateXML(DiskUser)
    \/ storageVolResize(DiskUser)
    \/ storageVolDelete(DiskUser)
    \/ Handlers
SpecDisk == InitJobs /\ [][NextDisk]_vars

\* C13: once the daemon runs, no step of volume create, resize or delete
\* changes the allocation or the available space of a pool of the
\* self-reporting type.
C13_SelfReportingCountersStay ==
    [][ \A n \in PoolNames :
          (/\ boot.phase = "running"
           /\ n \in Names(pools) /\ n \in Names(pools')
           /\ SelfReporting(Obj(pools, n).def)
           /\ \E t \in Threads :
                 th[t].req.op \in {"storageVolCreateXML", "storageVolResize",
                                   "storageVolDelete"})
          => /\ Obj(pools', n).allocation = Obj(pools, n).allocation
             /\ Obj(pools', n).available = Obj(pools, n).available ]_vars

----------------------------------------------------------------------------
\* The pool list.  The directories hold nothing, or p1 with one definition
\* and no autostart link; one client creates, defines, starts, stops and
\* undefines pools and looks them up.  The definitions it passes are those
\* of p1 and three more: p2 on the source of p1's second definition, and two
\* that take the name of one pool with the UUID of the other.

Clashing ==
    { [name |-> "p2", uuid |-> "u2", type |-> "dir", source |-> "s2"],
      [name |-> "p2", uuid |-> "u1", type |-> "dir", source |-> "s3"],
      [name |-> "p1", uuid |-> "u2", type |-> "dir", source |-> "s3"] }
Admin == [Everything EXCEPT !.T = {"t1"}, !.D = DefsOf("p1") \cup Clashing]
InitRegistry ==
    Boot({ l \in LoadedLists :
             /\ Names(l) \subseteq {"p1"}
             /\ \A i \in DOMAIN l : l[i].newDef = NoDef /\ ~l[i].autostart })
NextRegistry ==
    \/ Startup
    \/ storagePoolCreateXML(Admin)
    \/ storagePoolDefineXML(Admin)
    \/ storagePoolCreate(Admin)
    \/ storagePoolDestroy(Admin)
    \/ storagePoolUndefine(Admin)
    \/ storagePoolLookupByUUID(Admin)
    \/ storagePoolLookupByName(Admin)
    \/ \E t \in Threads : BackendReturn(t)
SpecRegistry == InitRegistry /\ [][NextRegistry]_vars

\* the pool list holds no pool of handle h's name and none of its UUID
Gone(ps, h) ==
    /\ virStoragePoolObjFindByName(ps, h.name) = "-"
    /\ virStoragePoolObjFindByUUID(ps, h.uuid) = "-"
\* C15: the step in which Destroy succeeds on a transient pool, and the step
\* in which Undefine succeeds, leave the list without a pool of that name
\* and without one of that UUID; and a lookup by the name or by the UUID of
\* a pool that the list does not hold fails with "no storage pool".
C15_GoneAfterUndefine ==
    [][ \A t \in Threads :
          /\ \A h \in Handles :
                (/\ virStoragePoolObjFromStoragePool(h) # "-"
                 /\ MayDecide(t)
                 /\ ret'.msg = "OK"
                 /\ Decides(t, Req("storagePoolUndefine", h)))
                => Gone(pools', [name |-> virStoragePoolObjFromStoragePool(h), uuid |-> h.uuid])
          /\ (/\ th[t].pc = "backend"
              /\ th[t].req.op = "storagePoolDestroy"
              /\ ~PoolOf(th[t].req).configFile
              /\ Succeeds(t, th[t].req))
             => Gone(pools', [name |-> PoolOf(th[t].req).def.name, uuid |-> th[t].req.h.uuid])
          /\ \A h \in Handles :
                (/\ MayDecide(t)
                 /\ virStoragePoolObjFindByUUID(pools, h.uuid) = "-"
                 /\ Decides(t, Req("storagePoolLookupByUUID", h)))
                => (Rejected(t) /\ ret'.msg = "no storage pool")
          /\ \A h \in Handles :
                (/\ MayDecide(t)
                 /\ virStoragePoolObjFindByName(pools, h.name) = "-"
                 /\ Decides(t, Req("storagePoolLookupByName", h)))
                => (Rejected(t) /\ ret'.msg = "no storage pool") ]_vars
\* p1 has been undefined: the event is queued, the list is empty and the
\* config file is gone
C15_Witness ==
    /\ ret = [msg |-> "OK", ev |-> <<Event("undefined", "p1")>>]
    /\ pools = <<>>
    /\ "p1" \notin configFiles

\* the pools of list ps that are active, and those that have a config file
ActiveIn(ps) == { ps[i].def.name : i \in { j \in DOMAIN ps : ps[j].active } }
PersistentIn(ps) == { ps[i].def.name : i \in { j \in DOMAIN ps : ps[j].configFile } }
DefineCalls == { [Req("storagePoolDefineXML", HandleOf(d)) EXCEPT !.def = d] : d \in Admin.D }
CreateCalls ==
    { [Req("storagePoolCreateXML", HandleOf(d)) EXCEPT !.def = d, !.flags = f] :
         d \in Admin.D, f \in BuildFlags }
\* C16: no step of DefineXML writes a state file or makes a pool active, and
\* no step of CreateXML writes a config file or gives a pool one; the pool
\* that a successful CreateXML adds to the list has no config file.
C16_DefineAndCreateKeepApart ==
    [][ /\ \/ /\ stateFiles' \subseteq stateFiles
              /\ ActiveIn(pools') \subseteq ActiveIn(pools)
           \/ ~ \E t \in Threads, r \in DefineCalls : MayDecide(t) /\ Decides(t, r)
        /\ \/ /\ configFiles' = configFiles
              /\ PersistentIn(pools') \subseteq PersistentIn(pools)
           \/ /\ ~ \E t \in Threads, r \in CreateCalls : MayDecide(t) /\ Decides(t, r)
              /\ ~ \E t \in Threads : /\ th[t].pc = "backend"
                                      /\ th[t].req.op = "storagePoolCreateXML"
                                      /\ th'[t] # th[t]
        /\ \A t \in Threads :
              (/\ th[t].pc = "backend"
               /\ th[t].req.op = "storagePoolCreateXML"
               /\ th'[t] # th[t]
               /\ ret'.msg = "OK"
               /\ th[t].req.def.name \notin Names(pools))
              => /\ th[t].req.def.name \in ActiveIn(pools')
                 /\ th[t].req.def.name \notin PersistentIn(pools')
                 /\ th[t].req.def.name \in stateFiles' ]_vars
\* p1 is running with a state file and no config file while p2 is defined
\* with a config file and no state file
C16_Witness ==
    /\ Names(pools) = {"p1", "p2"}
    /\ ActiveIn(pools) = {"p1"} /\ stateFiles = {"p1"}
    /\ PersistentIn(pools) = {"p2"} /\ configFiles = {"p2"}
    /\ ret = [msg |-> "OK", ev |-> <<Event("defined", "p2")>>]

\* C17: after start-up no two pools of the list have the same name, the same
\* UUID or the same source.
C17_PoolsAreDistinct ==
    boot.phase = "running" =>
       \A i, j \in DOMAIN pools :
          (i # j) => /\ pools[i].def.name # pools[j].def.name
                     /\ pools[i].def.uuid # pools[j].def.uuid
                     /\ pools[i].def.source # pools[j].def.source

----------------------------------------------------------------------------
\* Volumes without a capacity (SpecDisk: the disk backend creates volumes
\* and has no buildVol)

\* C18: a volume CreateXML with capacity 0 that makes its checks on a running
\* pool whose backend has no buildVol returns "volume capacity required"
\* (VIR_ERR_NO_SUPPORT) in that step: the thread does not enter createVol and
\* the volumes of the pool, as everything else, are unchanged.
C18_CapacityRequired ==
    [][ \A h \in Handles :
          (/\ virStoragePoolObjFromStoragePool(h) # "-"
           /\ Obj(pools, virStoragePoolObjFromStoragePool(h)).active
           /\ ~Has(Obj(pools, virStoragePoolObjFromStoragePool(h)).def, "buildVol"))
          => \A t \in Threads, v \in VolNames :
                (/\ MayDecide(t)
                 /\ Decides(t, [Req("storageVolCreateXML", h) EXCEPT !.vol = v, !.cap = 0]))
                => /\ Rejected(t)
                   /\ ret'.msg = "volume capacity required"
                   /\ ErrCode(ret'.msg) = "VIR_ERR_NO_SUPPORT" ]_vars
\* the disk pool runs, holds no volume, and a CreateXML on it has just been
\* refused for its missing capacity
C18_Witness ==
    /\ ret = [msg |-> "volume capacity required", ev |-> <<>>]
    /\ "p2" \in ActiveIn(pools)
    /\ Obj(pools, "p2").def.type = "disk"
    /\ Obj(pools, "p2").vols = EmptyVols
    /\ th["t1"].pc = "idle"

----------------------------------------------------------------------------
\* A backend with few entry points.  The directories hold nothing or the
\* multipath pool p2, whose backend has checkPool and refreshPool only; one
\* client defines, starts, builds, stops, deletes and refreshes the pool and
\* calls the volume entry points on volume v1, which a refresh of the pool
\* may find.

Bare ==
    [Everything EXCEPT
        !.T = {"t1"}, !.P = {"p2"}, !.V = {"v1"}, !.S = {"v1"}, !.C = {MaxCap}, !.F = {{}},
        !.D = { d \in DefsOf("p2") : d.type = "mpath" }]
InitBare ==
    Boot({ l \in LoadedLists :
             /\ Names(l) \subseteq {"p2"}
             /\ \A i \in DOMAIN l : /\ l[i].def.type = "mpath"
                                    /\ l[i].newDef \in {NoDef, l[i].def} })
NextBare ==
    \/ Startup
    \/ storagePoolDefineXML(Bare)
    \/ storagePoolCreate(Bare)
    \/ storagePoolBuild(Bare)
    \/ storagePoolDestroy(Bare)
    \/ storagePoolDelete(Bare)
    \/ storagePoolRefresh(Bare)
    \/ storageVolCreateXML(Bare)
    \/ storageVolCreateXMLFrom(Bare)
    \/ storageVolDelete(Bare)
    \/ storageVolDownload(Bare)
    \/ storageVolUpload(Bare)
    \/ storageVolResize(Bare)
    \/ storageVolWipePattern(Bare)
    \/ \E t \in Threads : BackendReturn(t)
SpecBare == InitBare /\ [][NextBare]_vars


\* the backend entry point each handler is there to call
EntryPoint(op) ==
    CASE op = "storagePoolCreate"       -> "startPool"
      [] op = "storagePoolBuild"        -> "buildPool"
      [] op = "storagePoolDestroy"      -> "stopPool"
      [] op = "storagePoolDelete"       -> "deletePool"
      [] op = "storageVolCreateXML"     -> "createVol"
      [] op = "storageVolCreateXMLFrom" -> "buildVolFrom"
      [] op = "storageVolDelete"        -> "deleteVol"
      [] op = "storageVolDownload"      -> "downloadVol"
      [] op = "storageVolUpload"        -> "uploadVol"
      [] op = "storageVolResize"        -> "resizeVol"
      [] op = "storageVolWipePattern"   -> "wipeVol"
      [] OTHER                          -> "refreshPool"
\* the calls of NextBare that have such an entry point
BareCalls ==
    LET h == [name |-> "p2", uuid |-> "u2"]
        onVol(op) == [Req(op, h) EXCEPT !.vol = "v1"]
    IN  { [Req("storagePoolCreate", h) EXCEPT !.flags = f] : f \in BuildFlags }
        \cup { Req(op, h) : op \in {"storagePoolBuild", "storagePoolDestroy",
                                     "storagePoolDelete"} }
        \cup { onVol(op) : op \in {"storageVolDelete", "storageVolDownload",
                                    "storageVolUpload", "storageVolWipePattern"} }
        \cup { [onVol("storageVolCreateXML") EXCEPT !.cap = MaxCap],
               [onVol("storageVolResize") EXCEPT !.cap = MaxCap],
               [onVol("storageVolCreateXMLFrom")
                   EXCEPT !.cap = MaxCap, !.spool = "p2", !.svol = "v1"] }
\* the pool of request r is in the list and its backend lacks r's entry point
Lacks(r) ==
    /\ virStoragePoolObjFromStoragePool(r.h) # "-"
    /\ ~Has(Obj(pools, virStoragePoolObjFromStoragePool(r.h)).def, EntryPoint(r.op))
\* C19: a handler whose backend lacks the entry point the handler is there
\* to call never returns success, neither in the step in which it makes its
\* checks nor after the backend calls it does make.
C19_MissingMeansNotSupported ==
    [][ \A t \in Threads :
          /\ \A r \in BareCalls :
                (MayDecide(t) /\ Lacks(r) /\ Decides(t, r) /\ th'[t].pc = "idle")
                => ret'.msg # "OK"
          /\ (/\ th[t].pc = "backend"
              /\ th[t].req \in BareCalls
              /\ Lacks(th[t].req)
              /\ th'[t].pc = "idle")
             => ret'.msg # "OK" ]_vars


\* the errors of the precondition checks: not found, wrong state, busy,
\* entry point missing
PreconditionErrors ==
    {"no storage pool", "no storage vol", "not supported"} \cup InvalidState
\* C20: a handler that returns one of the precondition errors in the step in
\* which it makes its checks has changed nothing: pool list, pool flags,
\* volumes and counters, state files, config files, autostart links and
\* streams are as before, and no event is queued.
C20_RejectionsChangeNothing ==
    [][ \A t \in Threads, r \in BareCalls :
          (/\ MayDecide(t)
           /\ Decides(t, r)
           /\ th'[t].pc = "idle"
           /\ ret'.msg \in PreconditionErrors)
          => Rejected(t) ]_vars

----------------------------------------------------------------------------
\* The window of a build.  The directory pool p1 is running; client t1
\* creates volume v2, from nothing or as a clone of v1, and meanwhile client
\* t2 asks for the pool's and the volumes' information and deletes v1.

Reader == [Everything EXCEPT !.T = {"t2"}, !.P = {"p1"}]
NextWindow ==
    \/ Startup
    \/ storageVolCreateXML(Builder)
    \/ storageVolCreateXMLFrom(Builder)
    \/ storagePoolGetInfo(Reader)
    \/ storagePoolIsActive(Reader)
    \/ storageVolGetInfoFlags(Reader)
    \/ storageVolGetXMLDesc(Reader)
    \/ storageVolDelete([Reader EXCEPT !.V = {"v1"}])
    \/ Handlers
    \/ BuildHandlers
SpecWindow == InitBusy /\ [][NextWindow]_vars

\* thread t is inside backend->buildVol or buildVolFrom
Building(t) == th[t].pc = "build"
\* what t2 asks for during the build, and which volume each call is about
WindowCalls ==
    LET h == [name |-> "p1", uuid |-> "u1"] IN
    { Req(op, h) : op \in {"storagePoolGetInfo", "storagePoolIsActive"} }
    \cup { [Req(op, h) EXCEPT !.vol = v] :
              op \in {"storageVolGetInfoFlags", "storageVolGetXMLDesc"}, v \in VolNames }
    \cup { [Req("storageVolDelete", h) EXCEPT !.vol = "v1"] }
buildArgs(req) ==
    [obj |-> req.h.name,
     vol |-> "copy",
     voldefsrc |-> IF req.op = "storageVolCreateXMLFrom"
                   THEN <<req.spool, req.svol>> ELSE <<>>]
\* the source volume handed to buildVolFrom, as it is in the list ps
voldefsrc(ps, req) ==
    LET a == buildArgs(req).voldefsrc IN
    IF a # <<>> /\ a[1] \in Names(ps) /\ a[2] \in DOMAIN Obj(ps, a[1]).vols
    THEN <<Obj(ps, a[1]).vols[a[2]]>> ELSE <<>>
\* C22: while a thread is inside the backend build without the locks, the
\* backend call has only the copy of the new volume to work on: the source
\* volume of a clone is not an object that the call reads while another
\* thread, holding the pool lock, writes it.
C22_SourceVolumeIsNotShared ==
    [][ \A t \in Threads :
          (Building(t) /\ Building(t)')
          => voldefsrc(pools', th[t].req) = voldefsrc(pools, th[t].req) ]_vars

\* thread t has the locks again and runs the rest of its handler in this step
Finishes(t) == th[t].pc \in {"build", "relock"} /\ th'[t].pc = "idle"
\* the step is the end of a build whose outcome was o
EndsWith(t, o) ==
    /\ Finishes(t)
    /\ pools' = Post(th[t].req, o).pools
    /\ ret'.msg = Post(th[t].req, o).msg
\* the new volume of t's request is gone from its pool and the pool's
\* counters are what they were
VolumeUndone(t) ==
    LET n == th[t].req.h.name IN
    /\ n \in Names(pools')
    /\ th[t].req.vol \notin DOMAIN Obj(pools', n).vols
    /\ Obj(pools', n).allocation = Obj(pools, n).allocation
    /\ Obj(pools', n).available = Obj(pools, n).available
\* C23: when backend->buildVol or buildVolFrom has failed, the step in which
\* the builder holds the locks again leaves the volume out of the pool's
\* volumes, the job no longer counted, the pool's counters as they were, and
\* the call fails.
C23_FailedBuildRemovesVolume ==
    [][ \A t \in Threads : \A o \in BuildOutcomes :
          (EndsWith(t, o) /\ ~o.main)
          => /\ VolumeUndone(t)
             /\ Obj(pools', th[t].req.h.name).asyncjobs
                  = Obj(pools, th[t].req.h.name).asyncjobs - 1
             /\ ret'.msg # "OK" ]_vars
\* C24: when volume CreateXML or CreateXMLFrom fails after the volume was
\* added to the pool, the volume is out of the pool's volumes again and the
\* pool's allocation and available are what they were.
C24_FailedCreateDeletesVolume ==
    [][ \A t \in Threads :
          (Finishes(t) /\ ret'.msg # "OK") => VolumeUndone(t) ]_vars

\* thread t's handler for op returns in this step, with error msg
Returns(t, op, msg) ==
    /\ th[t].pc = "backend"
    /\ th[t].req.op = op
    /\ th'[t].pc = "idle"
    /\ ret'.msg = msg
\* the list ps has no pool of that name and none of that UUID
NoPool(ps, def) ==
    \A i \in DOMAIN ps : ps[i].def.name # def.name /\ ps[i].def.uuid # def.uuid
\* C25: when pool CreateXML fails after it has put the pool into the list
\* (build, start, state file or refresh), the list has no pool of that name
\* or UUID on return, no state file of that name exists and no event is
\* queued; when DefineXML fails to save the definition, the list has no pool
\* of that name or UUID either and no event is queued.
C25_FailedCreateLeavesNothing ==
    [][ \A t \in Threads :
          /\ Returns(t, "storagePoolCreateXML", "backend failed")
             => /\ NoPool(pools', th[t].req.def)
                /\ th[t].req.def.name \notin stateFiles'
                /\ ret'.ev = <<>>
          /\ (MayDecide(t) /\ ret'.msg = "system error")
             => \A r \in DefineCalls :
                   Decides(t, r) => (NoPool(pools', r.def) /\ ret'.ev = <<>>) ]_vars

\* the two halves of C25 apart, and the first for a pool without a state
\* file of an earlier run
C25_DefineHalf ==
    [][ \A t \in Threads :
          (MayDecide(t) /\ ret'.msg = "system error")
          => \A r \in DefineCalls :
                Decides(t, r) => (NoPool(pools', r.def) /\ ret'.ev = <<>>) ]_vars
C25_CreateHalfFresh ==
    [][ \A t \in Threads :
          (Returns(t, "storagePoolCreateXML", "backend failed")
             /\ th[t].req.def.name \notin stateFiles)
          => /\ NoPool(pools', th[t].req.def)
             /\ th[t].req.def.name \notin stateFiles'
             /\ ret'.ev = <<>> ]_vars

\* lines 928-955: the backend and file calls storagePoolCreate makes, in
\* their order, once its checks have passed and the calls turn out as o
storagePoolCreateCalls(req, o) ==
    LET obj == Obj(pools, virStoragePoolObjFromStoragePool(req.h))
        build == IF Has(obj.def, "buildPool") /\ "build" \in req.flags
                 THEN <<"buildPool">> ELSE <<>>
        start == IF Has(obj.def, "startPool") THEN <<"startPool">> ELSE <<>>
        stop == IF Has(obj.def, "stopPool") THEN <<"stopPool">> ELSE <<>>
    IN  IF build # <<>> /\ ~o.pre THEN build
        ELSE IF start # <<>> /\ ~o.main THEN build \o start
        ELSE IF ~o.io
             THEN build \o start \o <<"virStoragePoolSaveState", "unlink">> \o stop
        ELSE IF ~o.refresh
             THEN build \o start \o <<"virStoragePoolSaveState", "refreshPool", "unlink">>
                        \o stop
        ELSE build \o start \o <<"virStoragePoolSaveState", "refreshPool">>
\* call a is made, and made before call b if that is made at all
Before(calls, a, b) ==
    \A j \in DOMAIN calls : calls[j] = b => \E i \in 1..(j - 1) : calls[i] = a
Made(calls, a) == \E i \in DOMAIN calls : calls[i] = a
\* the outcome o has storagePoolCreate fail after a successful startPool
FailsStarted(req, o) ==
    LET def == Obj(pools, virStoragePoolObjFromStoragePool(req.h)).def IN
    /\ ~(Has(def, "buildPool") /\ "build" \in req.flags /\ ~o.pre)
    /\ ~(Has(def, "startPool") /\ ~o.main)
    /\ ~o.io \/ ~o.refresh
\* C26: storagePoolCreate goes on only for a pool that is not active.  When
\* it fails in buildPool, startPool, the state file or refreshPool, the pool
\* is still in the list and not active, no state file of it remains and no
\* event is queued; the backend is asked to stop exactly when the failure
\* came after startPool; the state file is written before refreshPool runs.
C26_FailedStartLeavesPoolInactive ==
    [][ \A t \in Threads :
          LET n == virStoragePoolObjFromStoragePool(th[t].req.h) IN
          /\ (th[t].pc = "backend" /\ th[t].req.op = "storagePoolCreate")
             => /\ n \in Names(pools)
                /\ ~Obj(pools, n).active
                /\ \A o \in PoolOutcomes :
                     LET calls == storagePoolCreateCalls(th[t].req, o) IN
                     /\ Before(calls, "virStoragePoolSaveState", "refreshPool")
                     /\ Made(calls, "stopPool")
                          <=> (FailsStarted(th[t].req, o) /\ Has(Obj(pools, n).def, "stopPool"))
          /\ Returns(t, "storagePoolCreate", "backend failed")
             => /\ n \in Names(pools')
                /\ ~Obj(pools', n).active
                /\ n \notin stateFiles'
                /\ ret'.ev = <<>> ]_vars
\* C26 for a pool that had no state file when the call began
C26_FreshStart ==
    [][ \A t \in Threads :
          LET n == virStoragePoolObjFromStoragePool(th[t].req.h) IN
          /\ (th[t].pc = "backend" /\ th[t].req.op = "storagePoolCreate")
             => /\ n \in Names(pools)
                /\ ~Obj(pools, n).active
                /\ \A o \in PoolOutcomes :
                     LET calls == storagePoolCreateCalls(th[t].req, o) IN
                     /\ Before(calls, "virStoragePoolSaveState", "refreshPool")
                     /\ Made(calls, "stopPool")
                          <=> (FailsStarted(th[t].req, o) /\ Has(Obj(pools, n).def, "stopPool"))
          /\ (Returns(t, "storagePoolCreate", "backend failed") /\ n \notin stateFiles)
             => /\ n \in Names(pools')
                /\ ~Obj(pools', n).active
                /\ n \notin stateFiles'
                /\ ret'.ev = <<>> ]_vars

\* lines 1182-1185: the backend calls storagePoolRefresh makes once its
\* checks have passed and the rescan turns out as o
storagePoolRefreshCalls(req, o) ==
    LET def == Obj(pools, virStoragePoolObjFromStoragePool(req.h)).def IN
    IF ~o.refresh /\ Has(def, "stopPool") THEN <<"refreshPool", "stopPool">>
    ELSE <<"refreshPool">>
\* C27: when storagePoolRefresh's rescan fails, the call fails, the backend
\* is asked to stop the pool, a pool without a config file is out of the
\* list and one with a config file is in it and not active, and the one
\* event queued is 'stopped'; when the rescan succeeds the pool is still
\* active and the one event queued is 'refreshed'.
C27_RefreshFailureStopsPool ==
    [][ \A t \in Threads :
          LET n == virStoragePoolObjFromStoragePool(th[t].req.h) IN
          /\ Returns(t, "storagePoolRefresh", "backend failed")
             => /\ IF Obj(pools, n).configFile
                   THEN n \in Names(pools') /\ ~Obj(pools', n).active
                   ELSE n \notin Names(pools')
                /\ ret'.ev = <<Event("stopped", n)>>
                /\ \A o \in PoolOutcomes :
                     ~o.refresh =>
                        (Made(storagePoolRefreshCalls(th[t].req, o), "stopPool")
                           <=> Has(Obj(pools, n).def, "stopPool"))
          /\ Returns(t, "storagePoolRefresh", "OK")
             => /\ n \in Names(pools')
                /\ Obj(pools', n).active
                /\ ret'.ev = <<Event("refreshed", n)>>
          /\ (th[t].pc = "backend" /\ th[t].req.op = "storagePoolRefresh" /\ th'[t].pc = "idle")
             => ret'.msg \in {"OK", "backend failed"} ]_vars
\* a Refresh of the persistent pool p1 has failed: p1 is in the list, not
\* active, and 'stopped' is queued
C27_Witness ==
    /\ ret.msg = "backend failed"
    /\ ret.ev = <<Event("stopped", "p1")>>
    /\ "p1" \in Names(pools)
    /\ ~Obj(pools, "p1").active
    /\ Obj(pools, "p1").configFile

----------------------------------------------------------------------------
\* The refresh after an upload.  The directory pool p1 is running; client t2
\* uploads into v1, stops and undefines p1, client t1 creates volume v2, and
\* the upload's stream is closed at any time after.

Uploader == [Everything EXCEPT !.T = {"t2"}, !.P = {"p1"}, !.V = {"v1"}]
NextStream ==
    \/ Startup
    \/ storageVolUpload(Uploader)
    \/ virStorageVolFDStreamCloseCb
    \/ virStorageVolPoolRefreshThread
    \/ storageVolCreateXML(Builder)
    \/ storagePoolDestroy(Uploader)
    \/ storagePoolUndefine(Uploader)
    \/ Handlers
    \/ BuildHandlers
SpecStream == InitBusy /\ [][NextStream]_vars

\* the refresh thread running as t comes to its end in this step
ThreadEnds(t) ==
    /\ th[t].req.op = "virStorageVolPoolRefreshThread"
    /\ th[t].pc \in {"spawned", "lookup", "backend"}
    /\ th'[t].pc = "idle"
\* C28: the refresh thread started by the close of an upload stream leaves a
\* pool with running jobs, and a pool name that is no longer in the list,
\* alone: nothing changes and no event is queued.  It reports no error, and
\* whatever its rescan returns it takes no pool out of the list, makes none
\* inactive and touches no file.
C28_BackgroundRefreshIsHarmless ==
    [][ \A t \in Threads :
          ThreadEnds(t)
          => LET n == th[t].req.h.name IN
             /\ ret'.msg = "OK"
             /\ Names(pools') = Names(pools)
             /\ \A m \in Names(pools) : Obj(pools', m).active = Obj(pools, m).active
             /\ UNCHANGED <<stateFiles, configFiles, autostartLinks>>
             /\ (n \notin Names(pools) \/ Obj(pools, n).asyncjobs > 0)
                => (UNCHANGED pools /\ ret'.ev = <<>>) ]_vars
\* the thread's rescan of p1 has failed: the volumes are cleared, the
\* allocation is the old one, p1 is still active and 'refreshed' is queued
C28_Witness ==
    /\ ret = [msg |-> "OK", ev |-> <<Event("refreshed", "p1")>>]
    /\ Obj(pools, "p1").active
    /\ Obj(pools, "p1").vols = EmptyVols
    /\ Obj(pools, "p1").allocation = 1

----------------------------------------------------------------------------
\* The start of the daemon alone: the directories hold any pools, and no
\* client calls before the autostart pass is over.

NextBoot == Startup
SpecBoot == Init /\ [][NextBoot]_vars

\* storagePoolUpdateAllState has ended
Recovered == boot.phase = "ready"
\* C29: in storagePoolUpdateAllState no pass of the loop unlocks a pool
\* object that the pass has removed, and when the loop has ended every pool
\* has been probed: a pool is active only if its backend has checkPool (which
\* reported it active, and refreshPool succeeded), a pool that is not active
\* has no state file, and a pool that is not active has a config file, the
\* others having been removed from the list.
C29_RecoveryProbesEveryPool ==
    /\ ~boot.uaf
    /\ Recovered
       => \A i \in DOMAIN pools :
            /\ pools[i].active => Has(pools[i].def, "checkPool")
            /\ ~pools[i].active => pools[i].def.name \notin stateFiles
            /\ ~pools[i].active => pools[i].configFile
\* the second half alone: what the loop leaves when it has ended
C29_NoPoolIsSkipped ==
    Recovered
    => \A i \in DOMAIN pools :
         /\ pools[i].active => Has(pools[i].def, "checkPool")
         /\ ~pools[i].active => pools[i].def.name \notin stateFiles
         /\ ~pools[i].active => pools[i].configFile

\* storageDriverAutostart is at pool i of the list
AtPool(i) == boot.phase = "autostart" /\ boot.i = i /\ i \in DOMAIN pools
\* C30: each pass of storageDriverAutostart's loop goes on to the next pool
\* whatever happens to this one, and changes no other pool.  A pool that is
\* active or has no autostart flag is left as it is.  A flagged pool that is
\* not active is started: it ends active with a state file, or, when
\* startPool, the state file or refreshPool fails, not active and without
\* one.
C30_AutostartTriesEveryPool ==
    [][ \A i \in 1..Len(pools) :
          AtPool(i)
          => LET obj == pools[i]
                 n == obj.def.name
             IN  /\ boot' = [boot EXCEPT !.i = i + 1]
                 /\ Len(pools') = Len(pools)
                 /\ \A j \in DOMAIN pools : j # i => pools'[j] = pools[j]
                 /\ stateFiles' \ {n} = stateFiles \ {n}
                 /\ pools'[i].def = obj.def
                 /\ IF obj.autostart /\ ~obj.active
                    THEN pools'[i].active <=> n \in stateFiles'
                    ELSE pools'[i] = obj /\ stateFiles' = stateFiles ]_vars
\* the pass is over: the first pool, flagged, failed to start and has no
\* state file; the disk pool after it, flagged too, was started
C30_Witness ==
    /\ boot.phase = "running"
    /\ Len(pools) = 2
    /\ pools[1].autostart /\ ~pools[1].active /\ pools[1].def.name \notin stateFiles
    /\ pools[2].def.type = "disk"
    /\ pools[2].autostart /\ pools[2].active /\ pools[2].def.name \in stateFiles

----------------------------------------------------------------------------
\* The autostart flag and its link

SetAutostartCalls ==
    { [Req("storagePoolSetAutostart", h) EXCEPT !.flags = f] :
         h \in HandlesIn(LifeCalls), f \in { {}, {"autostart"} } }
\* the call r asks for the flag to be set
Wanted(r) == "autostart" \in r.flags
\* C31: storagePoolSetAutostart fails on a pool without config file and
\* changes nothing.  On a pool with one, a successful call leaves the flag
\* as asked for, and the link in the autostart directory exists exactly when
\* the flag is set; a call for the value the flag has already succeeds and
\* touches neither flag nor link; a failed call leaves the flag as it was.
C31_AutostartFollowsLink ==
    [][ \A t \in Threads :
          MayDecide(t)
          => \A r \in SetAutostartCalls :
               LET n == virStoragePoolObjFromStoragePool(r.h) IN
               (Decides(t, r) /\ n # "-")
               => IF ~Obj(pools, n).configFile
                  THEN Rejected(t) /\ ret'.msg = "pool has no config file"
                  ELSE /\ n \in Names(pools')
                       /\ IF ret'.msg = "OK"
                          THEN /\ Obj(pools', n).autostart = Wanted(r)
                               /\ (n \in autostartLinks') <=> Wanted(r)
                          ELSE Obj(pools', n).autostart = Obj(pools, n).autostart
                       /\ (Obj(pools, n).autostart = Wanted(r))
                          => (ret'.msg = "OK" /\ UNCHANGED <<pools, autostartLinks>>) ]_vars
\* C31 with the link looked at only after a call that has changed the flag
C31_FlagFollowsCall ==
    [][ \A t \in Threads :
          MayDecide(t)
          => \A r \in SetAutostartCalls :
               LET n == virStoragePoolObjFromStoragePool(r.h) IN
               (Decides(t, r) /\ n # "-")
               => IF ~Obj(pools, n).configFile
                  THEN Rejected(t) /\ ret'.msg = "pool has no config file"
                  ELSE /\ n \in Names(pools')
                       /\ IF ret'.msg = "OK"
                          THEN /\ Obj(pools', n).autostart = Wanted(r)
                               /\ (Obj(pools, n).autostart # Wanted(r))
                                  => ((n \in autostartLinks') <=> Wanted(r))
                          ELSE Obj(pools', n).autostart = Obj(pools, n).autostart
                       /\ (Obj(pools, n).autostart = Wanted(r))
                          => (ret'.msg = "OK" /\ UNCHANGED <<pools, autostartLinks>>) ]_vars

----------------------------------------------------------------------------
\* Events.  One client calls every pool and volume entry point on the
\* directory pool p1, which the directories hold in any form or not at all.

TheDef == [name |-> "p1", uuid |-> "u1", type |-> "dir", source |-> "s1"]
Client == [Everything EXCEPT !.T = {"t1"}, !.D = {TheDef}, !.P = {"p1"},
                             !.V = {"v1"}, !.S = {"v1"}, !.C = {MaxCap}, !.F = {{}}]
Maker == [Client EXCEPT !.V = {"v2"}]
NextEvents ==
    \/ Startup
    \/ storagePoolCreateXML(Client)
    \/ storagePoolDefineXML(Client)
    \/ storagePoolUndefine(Client)
    \/ storagePoolCreate(Client)
    \/ storagePoolBuild(Client)
    \/ storagePoolDestroy(Client)
    \/ storagePoolDelete(Client)
    \/ storagePoolRefresh(Client)
    \/ storagePoolGetInfo(Client)
    \/ storagePoolSetAutostart(Client)
    \/ storageVolCreateXML(Maker)
    \/ storageVolCreateXMLFrom(Maker)
    \/ storageVolDelete(Client)
    \/ storageVolDownload(Client)
    \/ storageVolUpload(Client)
    \/ storageVolResize(Client)
    \/ storageVolWipePattern(Client)
    \/ storageVolGetInfoFlags(Client)
    \/ \E t \in Threads : BackendReturn(t)
    \/ \E t \in Threads : BuildReturn(t)
InitEvents ==
    Boot({ l \in LoadedLists :
             \A i \in DOMAIN l : l[i].def = TheDef /\ l[i].newDef = NoDef /\ ~l[i].autostart })
SpecEvents == InitEvents /\ [][NextEvents]_vars

\* the kind of event an entry point queues when it succeeds
EventOf(op) ==
    CASE op \in {"storagePoolCreateXML", "storagePoolCreate"} -> "started"
      [] op = "storagePoolDefineXML" -> "defined"
      [] op = "storagePoolBuild"     -> "created"
      [] op = "storagePoolDestroy"   -> "stopped"
      [] op = "storagePoolDelete"    -> "deleted"
      [] op = "storagePoolUndefine"  -> "undefined"
      [] op = "storagePoolRefresh"   -> "refreshed"
      [] OTHER -> "-"
\* the pool a call is about, by the name it has in the list
Subject(r) ==
    IF r.op \in {"storagePoolCreateXML", "storagePoolDefineXML"} THEN r.def.name
    ELSE virStoragePoolObjFromStoragePool(r.h)
\* the events the claim allows call r to queue when it returns msg
Queued(r, msg) ==
    IF msg = "OK"
    THEN IF EventOf(r.op) = "-" THEN <<>> ELSE <<Event(EventOf(r.op), Subject(r))>>
    ELSE IF r.op = "storagePoolRefresh" /\ msg = "backend failed"
         THEN <<Event("stopped", Subject(r))>>
    ELSE <<>>
\* the calls the client of this scenario makes without a backend call
EventCalls ==
    LET h == [name |-> "p1", uuid |-> "u1"] IN
    { [Req(op, HandleOf(d)) EXCEPT !.def = d, !.flags = f] :
         op \in {"storagePoolCreateXML"}, d \in Client.D, f \in BuildFlags }
    \cup { [Req("storagePoolDefineXML", HandleOf(d)) EXCEPT !.def = d] : d \in Client.D }
    \cup { [Req("storagePoolCreate", h) EXCEPT !.flags = f] : f \in BuildFlags }
    \cup { Req(op, h) : op \in {"storagePoolUndefine", "storagePoolBuild", "storagePoolDestroy",
                                "storagePoolDelete", "storagePoolRefresh",
                                "storagePoolGetInfo"} }
    \cup { [Req("storagePoolSetAutostart", h) EXCEPT !.flags = f] : f \in { {}, {"autostart"} } }
    \cup { [Req(op, h) EXCEPT !.vol = "v1"] :
              op \in {"storageVolDelete", "storageVolDownload", "storageVolUpload",
                      "storageVolGetInfoFlags"} }
    \cup { [Req("storageVolResize", h) EXCEPT !.vol = "v1", !.cap = MaxCap] }
    \cup { [Req("storageVolWipePattern", h) EXCEPT !.vol = "v1", !.cap = alg] :
              alg \in {0, VIR_STORAGE_VOL_WIPE_ALG_LAST} }
    \cup { [Req("storageVolCreateXML", h) EXCEPT !.vol = "v2", !.cap = MaxCap] }
    \cup { [Req("storageVolCreateXMLFrom", h)
               EXCEPT !.vol = "v2", !.spool = "p1", !.svol = "v1", !.cap = MaxCap] }
\* C32: a pool entry point that succeeds queues one event, of its own kind
\* and for its pool; one that fails queues none, but for storagePoolRefresh,
\* which queues one 'stopped' when its rescan fails; the volume entry points
\* queue none.
C32_OneEventPerSuccess ==
    [][ \A t \in Threads :
          /\ (th[t].pc = "backend" /\ th'[t].pc = "idle")
             => ret'.ev = Queued(th[t].req, ret'.msg)
          /\ Finishes(t) => ret'.ev = <<>>
          /\ (MayDecide(t) /\ th'[t].pc = "idle")
             => \A r \in EventCalls :
                   ret'.ev = Queued(r, ret'.msg) \/ ~Decides(t, r) ]_vars
\* storagePoolDelete has succeeded on p1: one 'deleted' is queued
C32_Witness ==
    /\ ret = [msg |-> "OK", ev |-> <<Event("deleted", "p1")>>]
    /\ "p1" \in Names(pools)
    /\ ~Obj(pools, "p1").active

----------------------------------------------------------------------------
\* The counts a clone raises and lowers

\* thread t is cloning, between the release of the locks and its return
Cloning(t) ==
    th[t].pc \in {"build", "relock"} /\ th[t].req.op = "storageVolCreateXMLFrom"
\* the clones that read volume v of the pool named n
ClonesFrom(n, v) ==
    { t \in Threads : Cloning(t) /\ th[t].req.spool = n /\ th[t].req.svol = v }
\* the in_use count of the source volume and the job counts of the two pools
\* of request r, in the list ps
Counts(ps, r) ==
    <<Obj(ps, r.spool).vols[r.svol].in_use, Obj(ps, r.h.name).asyncjobs,
      Obj(ps, r.spool).asyncjobs>>
\* what a clone adds to each of them: when the source pool is the destination
\* pool its count is the second one, raised once and not twice
Raise(r) == <<1, 1, 1>>
Plus(a, b) == [i \in 1..3 |-> a[i] + b[i]]
\* C33: storageVolCreateXMLFrom goes as far as the copy only when the
\* destination pool and the source volume's pool are active.  When it drops
\* the locks the source volume's in_use and the job count of the destination
\* pool, and of the source pool when that is another pool, are each one
\* higher; when it returns from the copy, failed or not, each is one lower
\* again; a call that fails before the copy changes none.  So each volume's
\* in_use is the number of clones reading it, 0 when none is running.
C33_CloneCountsBalance ==
    /\ [](\A i \in DOMAIN pools : \A v \in DOMAIN pools[i].vols :
             pools[i].vols[v].in_use = Cardinality(ClonesFrom(pools[i].def.name, v)))
    /\ [][ \A t \in Threads :
             LET r == th[t].req IN
             /\ (th[t].pc = "backend" /\ r.op = "storageVolCreateXMLFrom" /\ th'[t].pc = "build")
                => /\ Obj(pools, r.h.name).active
                   /\ Obj(pools, r.spool).active
                   /\ Counts(pools', r) = Plus(Counts(pools, r), Raise(r))
             /\ (th[t].pc = "backend" /\ r.op = "storageVolCreateXMLFrom" /\ th'[t].pc = "idle")
                => /\ ret'.msg # "OK"
                   /\ Counts(pools', r) = Counts(pools, r)
             /\ (Finishes(t) /\ r.op = "storageVolCreateXMLFrom")
                => /\ r.h.name \in Names(pools') /\ r.spool \in Names(pools')
                   /\ r.svol \in DOMAIN Obj(pools', r.spool).vols
                   /\ Plus(Counts(pools', r), Raise(r)) = Counts(pools, r) ]_vars
\* a clone from one pool into another is in its copy: the source volume is in
\* use once and each of the two pools counts one job
C33_Witness ==
    \E t \in Threads :
        /\ Cloning(t) /\ CloneCross(th[t].req)
        /\ \A u \in Threads \ {t} : th[u].pc = "idle"
        /\ Counts(pools, th[t].req) = <<1, 1, 1>>

----------------------------------------------------------------------------
\* Who changes what.  The directories hold p1, running (with or without a
\* config file), and the disk pool p2, autostarted; two clients create and
\* clone volumes while one of them starts, stops, defines, undefines,
\* deletes and refreshes p1.

RunningEither ==
    { l \in LoadedLists :
        /\ Len(l) = 2
        /\ l[1].def = TheDef /\ l[1].active /\ ~l[1].autostart
        /\ l[1].newDef \in {NoDef, TheDef}
        /\ ~l[2].active /\ l[2].autostart /\ l[2].def.type = "disk" }
InitHold == Boot(RunningEither)
NextHold ==
    \/ NextJobs
    \/ storagePoolCreateXML([Owners EXCEPT !.D = {TheDef}])
SpecHold == InitHold /\ [][NextHold]_vars

\* the pool objects that the step changes, adds or removes, by name
Touched ==
    { n \in PoolNames :
        \/ (n \in Names(pools)) # (n \in Names(pools'))
        \/ n \in Names(pools) /\ n \in Names(pools') /\ Obj(pools, n) # Obj(pools', n) }
\* the step is one of thread t, which was inside a handler
Continues(t) == th[t].pc # "idle" /\ th'[t] # th[t]
\* the pool locks a thread inside a handler is about to take
Asked(t) ==
    CASE th[t].pc = "spawned" -> { Need(th[t].req)[i] : i \in DOMAIN Need(th[t].req) }
      [] th[t].pc = "build" -> { NeedAgain(th[t].req)[i] : i \in DOMAIN NeedAgain(th[t].req) }
      [] th[t].pc \in {"lookup", "relock"} -> { th[t].need[i] : i \in DOMAIN th[t].need }
      [] OTHER -> {}
\* thread t has the driver lock, or takes it in this step
HasDriver(t) ==
    IF th[t].pc \in {"spawned", "build"} THEN driverLock = NoThread ELSE driverLock = t
\* thread t has the lock of pool n, or takes it in this step under the
\* driver lock
HasPool(t, n) ==
    \/ poolLock[n] = t
    \/ poolLock[n] = NoThread /\ n \in Asked(t) /\ HasDriver(t)
----------------------------------------------------------------------------
\* A pool with jobs.  The directory pool p1 is running; one client creates
\* and clones volumes in it while the other defines it again, stops,
\* starts, refreshes, deletes and undefines it and deletes its volumes.

NextKeep ==
    \/ Startup
    \/ storageVolCreateXML(Builder)
    \/ storageVolCreateXMLFrom(Builder)
    \/ storagePoolDefineXML([Other EXCEPT !.D = DefsOf("p1")])
    \/ storagePoolUndefine(Other)
    \/ storagePoolCreate(Other)
    \/ storagePoolDestroy(Other)
    \/ storagePoolDelete(Other)
    \/ storagePoolRefresh(Other)
    \/ storageVolDelete([Other EXCEPT !.V = VolNames])
    \/ Handlers
    \/ BuildHandlers
SpecKeep == InitBusy /\ [][NextKeep]_vars

\* the pool of thread t's build is in the list
PoolKept(t) == th[t].req.h.name \in Names(pools)
\* C35: a volume that is building or in use is in a pool with jobs; a pool
\* with jobs is active; and a thread that builds or clones a volume, or
\* waits for the locks after it, finds its pool in the list, active and with
\* the job counted, and its volume in the pool, marked as building.
C35_BuilderKeepsItsPool ==
    /\ \A i \in DOMAIN pools :
          /\ pools[i].asyncjobs > 0 => pools[i].active
          /\ \A v \in DOMAIN pools[i].vols :
                (pools[i].vols[v].building \/ pools[i].vols[v].in_use > 0)
                   => pools[i].asyncjobs > 0
    /\ \A t \in Threads :
          th[t].pc \in {"build", "relock"}
             => /\ PoolKept(t)
                /\ Obj(pools, th[t].req.h.name).active
                /\ Obj(pools, th[t].req.h.name).asyncjobs > 0
                /\ th[t].req.vol \in DOMAIN Obj(pools, th[t].req.h.name).vols
                /\ Obj(pools, th[t].req.h.name).vols[th[t].req.vol].building

----------------------------------------------------------------------------
\* The order of the locks.  The directories hold p1, running, and the disk
\* pool p2, autostarted; or one running pool that was defined as p1, was
\* undefined and is defined as p2 with the UUID it had.  Two clients, who
\* looked the pools up as p1 and p2 when they were that, clone volume v1 of
\* each pool into the other, and download and create volumes in p2.

Renamed == [name |-> "p2", uuid |-> "u1", type |-> "dir", source |-> "s1"]
InitOrder == Boot(RunningPair \cup { <<Loaded("both", Renamed, Renamed, FALSE)>> })
OppositeClones ==
    { [Req("storageVolCreateXMLFrom", [name |-> "p1", uuid |-> "u1"])
          EXCEPT !.vol = "v2", !.spool = "p2", !.svol = "v1", !.cap = MaxCap],
      [Req("storageVolCreateXMLFrom", [name |-> "p2", uuid |-> "u2"])
          EXCEPT !.vol = "v2", !.spool = "p1", !.svol = "v1", !.cap = MaxCap] }
InP2 == [Everything EXCEPT !.P = {"p2"}, !.V = {"v1"}, !.C = {MaxCap}]
CloneAcross == \E t \in Threads, r \in OppositeClones : Caller(t) /\ Begin(t, r)
NextOrder ==
    \/ Startup
    \/ CloneAcross
    \/ storageVolDownload(InP2)
    \/ storageVolDelete(InP2)
    \/ Handlers
    \/ BuildHandlers
SpecOrder == InitOrder /\ [][NextOrder]_vars

\* thread t waits for the lock of a pool object
Waits(t) == th[t].pc \in {"lookup", "relock"}
\* the thread that holds the lock t waits for
Holder(t) == poolLock[Head(th[t].need)]
\* C36: no thread waits for the driver lock with a pool object locked; a
\* thread that waits for a pool object lock, with or without another pool
\* object locked, holds the driver lock; and the lock it waits for is free or
\* is held by another thread that is inside a backend call and waits for
\* nothing.  So every wait ends once the backend calls return.
C36_EveryWaitEnds ==
    \A t \in Threads :
       /\ th[t].pc \in {"idle", "spawned", "build"} => HeldBy(t) = {}
       /\ Waits(t) => /\ driverLock = t
                      /\ Holder(t) # t
                      /\ Holder(t) \in Threads => th[Holder(t)].pc = "backend"

----------------------------------------------------------------------------
\* Locks at the return

\* C37: a thread that is in no handler holds no lock, the daemon holds the
\* driver lock during the passes of its start only, and no pass unlocks a
\* pool object that it has removed from the list.
C37_LocksAreReleasedOnce ==
    /\ \A t \in Threads : th[t].pc \in {"idle", "spawned"} => (driverLock # t /\ HeldBy(t) = {})
    /\ driverLock = Daemon <=> boot.phase \in {"init", "autostart"}
    /\ ~boot.uaf

----------------------------------------------------------------------------
\* The counters do not wrap

\* the pool and the volume of thread t's request
ItsPool(t) == Obj(pools, th[t].req.h.name)
ItsVol(t) == ItsPool(t).vols[th[t].req.vol]
\* thread t's handler op returns success from its backend call or its build
Done(t, op) ==
    /\ th[t].req.op = op
    /\ th[t].pc \in {"backend", "build", "relock"}
    /\ th'[t].pc = "idle"
    /\ ret'.msg = "OK"
\* a successful delete takes no more from the pool's allocation than is there
DeleteFits ==
    \A t \in Threads :
       (Done(t, "storageVolDelete") /\ ~SelfReporting(ItsPool(t).def))
          => ItsVol(t).allocation <= ItsPool(t).allocation
\* a successful create or clone takes no more from available than is there
CreateFits ==
    \A t \in Threads :
       ((Done(t, "storageVolCreateXML") \/ Done(t, "storageVolCreateXMLFrom"))
         /\ ~SelfReporting(ItsPool(t).def))
          => Obj(pools', th[t].req.h.name).vols[th[t].req.vol].allocation
                <= ItsPool(t).available
\* a successful resize with allocation takes no more from available than is there
ResizeFits ==
    \A t \in Threads :
       (Done(t, "storageVolResize") /\ "allocate" \in th[t].req.flags)
          => USub(ResizeTarget(ItsVol(t), th[t].req.cap, th[t].req.flags),
                  ItsVol(t).allocation) <= ItsPool(t).available
\* C38: the unsigned counters of a pool do not wrap: what a create, a clone
\* or a resize with allocation subtracts from available is at most
\* available, and what a delete subtracts from allocation is at most
\* allocation.
C38_CountersNeverWrap == [][DeleteFits /\ CreateFits /\ ResizeFits]_vars
\* the part of it that the check of line 2459 secures
C38_ResizeFits == [][ResizeFits]_vars

----------------------------------------------------------------------------
\* Resizing by a delta

\* thread t's resize by a delta returns from resizeVol
DeltaReturns(t) ==
    /\ th[t].pc = "backend"
    /\ th[t].req.op = "storageVolResize"
    /\ "delta" \in th[t].req.flags
    /\ th'[t].pc = "idle"
\* the sum of volume vd's capacity and the delta of request r does not fit
Overflows(vd, r) ==
    "delta" \in r.flags /\ "shrink" \notin r.flags /\ vd.capacity + r.cap >= Wrap
\* C39: a resize by a delta without the shrink flag never lowers the
\* capacity: a sum that does not fit the counter is refused and pool and
\* volume stay as they are, and a sum that fits is the new capacity.  A
\* resize by a delta with the shrink flag leaves the capacity less the
\* delta, or 0 when the delta is larger, and never less than the volume's
\* allocation.  A resize that fails in resizeVol changes nothing.
C39_DeltaNeverWraps ==
    [][ \A t \in Threads :
          /\ DeltaReturns(t) =>
               LET r == th[t].req
                   vd == ItsVol(t)
                   new == Obj(pools', r.h.name).vols[r.vol]
               IN  IF ret'.msg # "OK" THEN pools' = pools
                   ELSE /\ ~Overflows(vd, r)
                        /\ "shrink" \notin r.flags => new.capacity = vd.capacity + r.cap
                        /\ "shrink" \in r.flags =>
                              /\ new.capacity = IF r.cap > vd.capacity THEN 0
                                                ELSE vd.capacity - r.cap
                              /\ new.capacity >= vd.allocation
          /\ MayDecide(t) =>
               \A h \in Handles, v \in VolNames :
                  (IsVol(h, v) /\ Obj(pools, h.name).active) =>
                     \A r \in ResizeCalls(h, v) :
                        (Overflows(Obj(pools, h.name).vols[v], r) /\ Decides(t, r))
                           => (Rejected(t) /\ pools' = pools) ]_vars
\* the volume has the largest capacity there is, and a resize has been
\* refused: one more added to it does not fit
C39_Witness ==
    /\ ret.msg = "invalid argument"
    /\ "p1" \in Names(pools)
    /\ "v2" \in DOMAIN Obj(pools, "p1").vols
    /\ Obj(pools, "p1").vols["v2"].capacity = Wrap - 1
    /\ Obj(pools, "p1").vols["v2"].allocation = 0

----------------------------------------------------------------------------
\* Volumes of a pool that is not running

\* C40: a pool of the list that is not active has no volumes, whatever
\* happened before: a stop, a failed start or refresh, or the rescan that
\* the close of an upload stream starts.
C40_InactivePoolHasNoVolumes ==
    \A i \in DOMAIN pools : ~pools[i].active => pools[i].vols = EmptyVols
\* the uploads and the creations of volumes that clients ask of p1
VolumeCalls ==
    LET h == [name |-> "p1", uuid |-> "u1"] IN
    { [Req(op, h) EXCEPT !.vol = v, !.cap = c] :
         op \in {"storageVolUpload", "storageVolCreateXML"}, v \in VolNames, c \in 0..MaxCap }
\* the part of it that holds: while p1 is in the list and not active, with
\* or without volumes in its map, every upload and every creation of a
\* volume is refused with nothing changed
C40_InactivePoolRefusesVolumeCalls ==
    [][ \A t \in Threads :
          (MayDecide(t) /\ "p1" \in Names(pools) /\ ~Obj(pools, "p1").active) =>
             \A r \in VolumeCalls : Decides(t, r) => (Rejected(t) /\ pools' = pools) ]_vars

====
